---- MODULE Spec2Model ----
(***************************************************************************)
(* Badminton court booking: the reservation manager (confirm_booking,      *)
(* cancel_booking), the availability checker, the pricing engine and the   *)
(* FIFO waitlist, over a relational store with row locks and atomic        *)
(* transactions (READ COMMITTED: a transaction's writes become visible to  *)
(* the other requests at its commit; a row lock is held until the          *)
(* transaction ends).                                                      *)
(*                                                                         *)
(* Times of day are whole hours, dates are day numbers (weekday = date % 7,*)
(* 0 = Monday), money is a Decimal kept as an integer count of 1/10000.    *)
(***************************************************************************)
EXTENDS Integers, Sequences, FiniteSets, TLC

\* ------------------------------------------------------------------ bounds
NumProcs == 2        \* concurrent request handlers
MaxBookings == 2     \* Booking rows ever created
MaxWaitlist == 2     \* Waitlist rows ever created
MaxTime == 2         \* clock readings 1..MaxTime
MaxExpiryTime == 3   \* clock readings of the expiry specification
MaxSlots == 34       \* entries of the list get_time_slots builds

Procs == 1..NumProcs

\* ----------------------------------------------------------------- catalog
\* Courts: one indoor and one outdoor active court, and an outdoor court whose
\* is_active flag was cleared on the admin page.
CourtIds == {1, 2, 3}

court_type(c) == IF c = 1 THEN "INDOOR" ELSE "OUTDOOR"

court_is_active(c) == c # 3

\* The courts the booking page offers: Court.objects.filter(is_active=True).
ActiveCourtIds == { c \in CourtIds : court_is_active(c) }

\* Equipment pools (id -> total_quantity).
EquipmentIds == {1, 2}
total_quantity(e) == IF e = 1 THEN 2 ELSE 1

\* Coaches (id -> hourly_fee) and their weekly availability windows.
CoachIds == {1, 2, 3, 4}

\* Coach 4 was deactivated on the admin page; the weekly windows stay.
coach_is_active(k) == k # 4
Dec(n) == n * 10000
hourly_fee(k) == IF k = 1 THEN Dec(200) ELSE IF k = 2 THEN Dec(250) ELSE Dec(300)

\* A window added to coach 1 through the coach's admin page (the
\* CoachAvailability inline): Friday evening, adjacent to the seeded 9-18.
AdminCoachAvailabilityRows ==
    { [coach |-> 1, day_of_week |-> 4, start_time |-> 18, end_time |-> 21] }

CoachAvailabilityRows ==
    { [coach |-> 1, day_of_week |-> d, start_time |-> 9, end_time |-> 18] : d \in 0..4 }
    \cup
    { [coach |-> 2, day_of_week |-> d, start_time |-> 10, end_time |-> 20] : d \in 0..5 }
    \cup
    { [coach |-> 3, day_of_week |-> d, start_time |-> 8, end_time |-> 20] : d \in {5, 6} }
    \cup
    { [coach |-> 4, day_of_week |-> d, start_time |-> 8, end_time |-> 20] : d \in {5, 6} }
    \cup AdminCoachAvailabilityRows

weekday(date) == date % 7

\* PricingRule rows as seeded.  name is the rank of the rule's name in
\* lexicographic order, multiplier is in hundredths, start_time = 0 stands for
\* a null time window and applies_to_days = {} for a blank day list.
Rule(n, t, m, f, pct, en, pri, s, e, days) ==
    [name |-> n, rule_type |-> t, multiplier |-> m, flat_fee |-> f,
     is_percentage |-> pct, is_enabled |-> en, priority |-> pri,
     start_time |-> s, end_time |-> e, applies_to_days |-> days]

SeedRules ==
    { Rule(2, "INDOOR_PREMIUM", 120, Dec(0), TRUE, TRUE, 1, 0, 0, {}),
      Rule(3, "PEAK_HOURS", 150, Dec(0), TRUE, TRUE, 2, 18, 21, {}),
      Rule(6, "WEEKEND", 130, Dec(0), TRUE, TRUE, 3, 0, 0, {5, 6}),
      Rule(4, "EQUIPMENT_FEE", 100, Dec(50), FALSE, TRUE, 4, 0, 0, {}),
      Rule(5, "EQUIPMENT_FEE", 100, Dec(30), FALSE, TRUE, 5, 0, 0, {}),
      Rule(1, "COACH_FEE", 100, Dec(0), FALSE, TRUE, 6, 0, 0, {}) }

VARIABLES
    bookings,    \* Booking table: sequence of committed rows, id = index
    waitlist,    \* Waitlist table: set of committed rows
    nextWid,     \* next Waitlist id
    rules,       \* PricingRule table
    now,         \* the clock
    pc,          \* per handler: where it is in its request
    req,         \* per handler: the request it is serving
    response,    \* the response the step just taken returned, if it returned one
    price,       \* the price evaluation the step just taken returned
    timeslots    \* the running or finished call of get_time_slots

vars == <<bookings, waitlist, nextWid, rules, now, pc, req, response, price, timeslots>>

\* -------------------------------------------------------------- pricing.py
BASE_COURT_PRICE == Dec(500)

\* Mutant of _time_overlaps: closed intervals, touching windows overlap.
_time_overlaps_closed(start1, end1, start2, end2) == start1 <= end2 /\ end1 >= start2

_time_overlaps(start1, end1, start2, end2) == start1 < end2 /\ end1 > start2

\* Mutant of RuleApplies: a rule of an unrecognised type applies always.
RuleAppliesByDefault(rule, court, date, start_time, end_time, equipment_list, coach) ==
    CASE rule.rule_type = "PEAK_HOURS" ->
            /\ rule.start_time # 0 /\ rule.end_time # 0
            /\ start_time < rule.end_time /\ end_time > rule.start_time
      [] rule.rule_type = "WEEKEND" -> (date % 7) \in rule.applies_to_days
      [] rule.rule_type = "INDOOR_PREMIUM" -> court_type(court) = "INDOOR"
      [] rule.rule_type = "EQUIPMENT_FEE" -> Len(equipment_list) > 0
      [] rule.rule_type = "COACH_FEE" -> coach # 0
      [] OTHER -> TRUE

\* Does the rule's predicate hold for the request (the if/elif chain on
\* rule_type; an unrecognised type leaves applied = False).
RuleApplies(rule, court, date, start_time, end_time, equipment_list, coach) ==
    CASE rule.rule_type = "PEAK_HOURS" ->
            /\ rule.start_time # 0 /\ rule.end_time # 0
            /\ _time_overlaps(start_time, end_time, rule.start_time, rule.end_time)
      [] rule.rule_type = "WEEKEND" -> weekday(date) \in rule.applies_to_days
      [] rule.rule_type = "INDOOR_PREMIUM" -> court_type(court) = "INDOOR"
      [] rule.rule_type = "EQUIPMENT_FEE" -> Len(equipment_list) > 0
      [] rule.rule_type = "COACH_FEE" -> coach # 0
      [] OTHER -> FALSE

\* Mutant of RuleAmount: a percentage rule takes its share of the base price.
RuleAmountOnBase(rule, current_price, equipment_list, coach) ==
    IF rule.is_percentage
    THEN (BASE_COURT_PRICE * (rule.multiplier - 100)) \div 100
    ELSE IF rule.rule_type = "EQUIPMENT_FEE" THEN rule.flat_fee * Len(equipment_list)
    ELSE IF rule.rule_type = "COACH_FEE" THEN hourly_fee(coach)
    ELSE rule.flat_fee

\* Mutant of RuleAmount: the coach fee rule adds its own flat_fee.
RuleAmountOwnFee(rule, current_price, equipment_list, coach) ==
    IF rule.is_percentage
    THEN (current_price * (rule.multiplier - 100)) \div 100
    ELSE IF rule.rule_type = "EQUIPMENT_FEE" THEN rule.flat_fee * Len(equipment_list)
    ELSE rule.flat_fee

\* Mutant of RuleAmount: the equipment fee is charged per unit rented.
RECURSIVE UnitsRented(_)
UnitsRented(equipment_list) ==
    IF equipment_list = <<>> THEN 0
    ELSE Head(equipment_list).quantity + UnitsRented(Tail(equipment_list))

RuleAmountPerUnit(rule, current_price, equipment_list, coach) ==
    IF rule.is_percentage
    THEN (current_price * (rule.multiplier - 100)) \div 100
    ELSE IF rule.rule_type = "EQUIPMENT_FEE" THEN rule.flat_fee * UnitsRented(equipment_list)
    ELSE IF rule.rule_type = "COACH_FEE" THEN hourly_fee(coach)
    ELSE rule.flat_fee

\* The amount one applied rule adds to current_price.
RuleAmount(rule, current_price, equipment_list, coach) ==
    IF rule.is_percentage
    THEN (current_price * (rule.multiplier - 100)) \div 100
    ELSE IF rule.rule_type = "EQUIPMENT_FEE" THEN rule.flat_fee * Len(equipment_list)
    ELSE IF rule.rule_type = "COACH_FEE" THEN hourly_fee(coach)
    ELSE rule.flat_fee

\* float(amount): the binary floating-point number nearest to a Decimal.
\* Decimals are counted in ten-thousandths; a float is counted in units of
\* 2^-16.  A double carries more fraction bits than that, but the decimals with
\* at most four places that a double holds exactly are the multiples of 1/16
\* (625 ten-thousandths), and those are exactly the ones held exactly here;
\* every other decimal is rounded to a neighbouring binary fraction.
Float(x) ==
    LET sixteenths == x \div 625
        rest == x % 625
    IN sixteenths * (2 ^ 12) + (2 * rest * (2 ^ 12) + 625) \div 1250

\* The loop over pricing_rules, given the order the query returned them in.
RECURSIVE ApplyRules(_, _, _, _, _, _, _, _, _)
ApplyRules(order, i, acc, court, date, start_time, end_time, equipment_list, coach) ==
    IF i > Len(order) THEN acc
    ELSE LET rule == order[i]
             amt == RuleAmount(rule, acc.total_price, equipment_list, coach)
         IN IF RuleApplies(rule, court, date, start_time, end_time, equipment_list, coach)
            THEN ApplyRules(order, i + 1,
                     [acc EXCEPT !.total_price = @ + amt,
                                 !.breakdown = Append(@, [rule |-> rule.name,
                                                          type |-> rule.rule_type,
                                                          amount |-> Float(amt)])],
                     court, date, start_time, end_time, equipment_list, coach)
            ELSE ApplyRules(order, i + 1, acc,
                     court, date, start_time, end_time, equipment_list, coach)

\* PricingRule.objects.filter(is_enabled=True).order_by('priority'): the rows
\* come back by ascending priority; the query names no second key, so rows of
\* equal priority come back in whatever order the database produces.
RECURSIVE OrderByPriority(_)
OrderByPriority(rs) ==
    IF rs = {} THEN { <<>> }
    ELSE UNION { { <<r>> \o t : t \in OrderByPriority(rs \ {r}) } :
                 r \in { x \in rs : \A y \in rs : x.priority <= y.priority } }

EnabledRules(rs) == { r \in rs : r.is_enabled }

calculate_price(order, court, date, start_time, end_time, equipment_list, coach) ==
    ApplyRules(order, 1,
               [total_price |-> BASE_COURT_PRICE,
                base_price |-> BASE_COURT_PRICE,
                breakdown |-> << [rule |-> 0, type |-> "base",
                                  amount |-> Float(BASE_COURT_PRICE)] >>],
               court, date, start_time, end_time, equipment_list, coach)

\* --------------------------------------------------------- availability.py
\* Mutant of Confirmed: the status filter is missing from the queries.
AnyStatus(b) == TRUE

\* booking__status='CONFIRMED'
Confirmed(b) == b.status = "CONFIRMED"

\* Mutant of SlotOverlaps: only an identical window counts as a conflict.
SlotSameWindow(b, date, start_time, end_time) ==
    b.date = date /\ b.start_time = start_time /\ b.end_time = end_time

\* The filter date=..., start_time__lt=end_time, end_time__gt=start_time.
SlotOverlaps(b, date, start_time, end_time) ==
    b.date = date /\ b.start_time < end_time /\ b.end_time > start_time

BookingIds == 1..Len(bookings)

check_court_available(court_id, date, start_time, end_time) ==
    ~ \E i \in BookingIds :
          /\ bookings[i].court = court_id
          /\ SlotOverlaps(bookings[i], date, start_time, end_time)
          /\ Confirmed(bookings[i])

\* Mutant of check_coach_available: a window that overlaps the request is
\* enough (start_time__lt=end_time, end_time__gt=start_time).
check_coach_available_overlap(coach_id, date, start_time, end_time) ==
    LET has_availability ==
            \E a \in CoachAvailabilityRows :
                /\ a.coach = coach_id
                /\ a.day_of_week = weekday(date)
                /\ a.start_time < end_time
                /\ a.end_time > start_time
    IN IF ~ has_availability THEN FALSE
       ELSE ~ \E i \in BookingIds :
                  /\ bookings[i].coach = coach_id
                  /\ bookings[i].date = date
                  /\ bookings[i].start_time < end_time /\ bookings[i].end_time > start_time
                  /\ bookings[i].status = "CONFIRMED"

check_coach_available(coach_id, date, start_time, end_time) ==
    LET has_availability ==
            \E a \in CoachAvailabilityRows :
                /\ a.coach = coach_id
                /\ a.day_of_week = weekday(date)
                /\ a.start_time <= start_time
                /\ a.end_time >= end_time
    IN IF ~ has_availability THEN FALSE
       ELSE ~ \E i \in BookingIds :
                  /\ bookings[i].coach = coach_id
                  /\ SlotOverlaps(bookings[i], date, start_time, end_time)
                  /\ Confirmed(bookings[i])

\* The listing queries of the availability API.
get_available_courts(date, start_time, end_time) ==
    LET all_courts == ActiveCourtIds
        booked_court_ids ==
            { bookings[i].court : i \in { j \in BookingIds :
                  /\ SlotOverlaps(bookings[j], date, start_time, end_time)
                  /\ Confirmed(bookings[j]) } }
    IN all_courts \ booked_court_ids

get_available_coaches(date, start_time, end_time) ==
    LET available_coach_ids ==
            { a.coach : a \in { r \in CoachAvailabilityRows :
                  /\ r.day_of_week = weekday(date)
                  /\ r.start_time <= start_time
                  /\ r.end_time >= end_time
                  /\ coach_is_active(r.coach) } }
        booked_coach_ids ==
            { bookings[i].coach : i \in { j \in BookingIds :
                  /\ SlotOverlaps(bookings[j], date, start_time, end_time)
                  /\ Confirmed(bookings[j])
                  /\ bookings[j].coach # 0 } }
    IN (CoachIds \cap available_coach_ids) \ booked_coach_ids

\* Sum('quantity') over the BookingEquipment rows of one booking for one item.
RECURSIVE SumQuantity(_, _)
SumQuantity(items, equipment_id) ==
    IF items = <<>> THEN 0
    ELSE (IF Head(items).id = equipment_id THEN Head(items).quantity ELSE 0)
         + SumQuantity(Tail(items), equipment_id)

\* Sum('quantity') over the rows of all CONFIRMED bookings overlapping the slot.
RECURSIVE BookedQuantity(_, _, _, _, _)
BookedQuantity(i, equipment_id, date, start_time, end_time) ==
    IF i = 0 THEN 0
    ELSE (IF Confirmed(bookings[i]) /\ SlotOverlaps(bookings[i], date, start_time, end_time)
          THEN SumQuantity(bookings[i].items, equipment_id) ELSE 0)
         + BookedQuantity(i - 1, equipment_id, date, start_time, end_time)

get_available_quantity(equipment_id, date, start_time, end_time) ==
    total_quantity(equipment_id)
    - BookedQuantity(Len(bookings), equipment_id, date, start_time, end_time)

check_equipment_available(equipment_id, quantity, date, start_time, end_time) ==
    get_available_quantity(equipment_id, date, start_time, end_time) >= quantity

\* The loop over equipment_list of check_all_resources_available: one error per
\* line that cannot be served.
RECURSIVE EquipmentErrors(_, _, _, _)
EquipmentErrors(equipment_list, date, start_time, end_time) ==
    IF equipment_list = <<>> THEN <<>>
    ELSE (IF check_equipment_available(Head(equipment_list).id, Head(equipment_list).quantity,
                                       date, start_time, end_time)
          THEN <<>>
          ELSE << [error |-> "Insufficient", id |-> Head(equipment_list).id] >>)
         \o EquipmentErrors(Tail(equipment_list), date, start_time, end_time)

\* Mutant of check_all_resources_available: the checks stop at the first failure.
check_all_first_failure(date, start_time, end_time, court_id, equipment_list, coach_id) ==
    LET errors ==
            (IF check_court_available(court_id, date, start_time, end_time)
             THEN <<>> ELSE << [error |-> "court", id |-> court_id] >>)
            \o EquipmentErrors(equipment_list, date, start_time, end_time)
            \o (IF coach_id # 0 /\ ~ check_coach_available(coach_id, date, start_time, end_time)
                THEN << [error |-> "coach", id |-> coach_id] >> ELSE <<>>)
    IN [available |-> Len(errors) = 0,
        errors |-> IF errors = <<>> THEN <<>> ELSE << Head(errors) >>]

check_all_resources_available(date, start_time, end_time, court_id, equipment_list, coach_id) ==
    LET errors ==
            (IF check_court_available(court_id, date, start_time, end_time)
             THEN <<>> ELSE << [error |-> "court", id |-> court_id] >>)
            \o EquipmentErrors(equipment_list, date, start_time, end_time)
            \o (IF coach_id # 0 /\ ~ check_coach_available(coach_id, date, start_time, end_time)
                THEN << [error |-> "coach", id |-> coach_id] >> ELSE <<>>)
    IN [available |-> Len(errors) = 0, errors |-> errors]

\* Equipment.objects.get(id=...) raises DoesNotExist for an unknown id.
UnknownEquipment(equipment_list) ==
    \E i \in 1..Len(equipment_list) : equipment_list[i].id \notin EquipmentIds

\* ---------------------------------------------------------------- requests
Req(op, user, court, date, start_time, end_time, equipment, coach_id, target) ==
    [op |-> op, user |-> user, court |-> court, date |-> date,
     start_time |-> start_time, end_time |-> end_time,
     equipment |-> equipment, coach_id |-> coach_id, target |-> target,
     locked |-> {}]

NoReq == Req("none", 0, 0, 0, 0, 0, <<>>, 0, 0)

Line(id, quantity) == [id |-> id, quantity |-> quantity]

Response(op, res, id, aux, errors, r) ==
    [op |-> op, res |-> res, id |-> id, aux |-> aux, errors |-> errors, req |-> r]

NoResponse == Response("none", "none", 0, 0, <<>>, NoReq)

\* The handler returns its JsonResponse.
Return(p, r, res, id, aux, errors) ==
    /\ pc' = [pc EXCEPT ![p] = "idle"]
    /\ req' = [req EXCEPT ![p] = NoReq]
    /\ response' = Response(r.op, res, id, aux, errors, r)

\* ------------------------------------------------------------ transactions
\* Mutant of AtomicExit: no atomic block, the writes made before the exception stay.
AtomicExitNoRollback(ok, before, after) == after

\* with transaction.atomic(): leaving the block normally commits the writes
\* made inside it, leaving it by an exception discards them.
AtomicExit(ok, before, after) == IF ok THEN after ELSE before

\* Mutant of HoldsCourt: the lock is given up once the re-check is done,
\* before the reservation is written.
HoldsCourtUntilChecked(q, c) == pc[q] = "c_locked" /\ req[q].court = c

\* Mutant of CourtRowFree: a plain get(), no select_for_update().
CourtRowNeverLocked(c, p) == TRUE

\* Court.objects.select_for_update().get(id=court_id): confirm_booking holds
\* the court's row lock from the get until its transaction ends.
HoldsCourt(q, c) == pc[q] \in {"c_locked", "c_checked"} /\ req[q].court = c

\* The row lock is free when no other open transaction holds it.
CourtRowFree(c, p) == \A q \in Procs \ {p} : ~ HoldsCourt(q, c)

\* Booking.objects.select_for_update(): cancel_booking holds the lock of the
\* row it is cancelling until its transaction ends.
HoldsBooking(q, b) == pc[q] \in {"x_locked", "x_notifying"} /\ req[q].target = b

\* A booking row can be locked (or updated) when no other transaction holds it.
BookingRowFree(b, p) == \A q \in Procs \ {p} : ~ HoldsBooking(q, b)

\* ------------------------------------------------- views.py confirm_booking
\* Mutant of ConflictingBookings: the re-check under the lock is left to
\* check_all_resources_available.
NoConflictQuery(r) == {}

\* Mutant of ConflictingBookings: the status='CONFIRMED' filter is missing.
ConflictingAnyStatus(r) ==
    { i \in BookingIds : /\ bookings[i].court = r.court
                         /\ SlotOverlaps(bookings[i], r.date, r.start_time, r.end_time) }

\* The CONFIRMED bookings of the court whose window overlaps the request.
ConflictingBookings(r) ==
    { i \in BookingIds : /\ bookings[i].court = r.court
                         /\ SlotOverlaps(bookings[i], r.date, r.start_time, r.end_time)
                         /\ Confirmed(bookings[i]) }

\* .first() under Booking.Meta.ordering = ['-date', '-start_time'].
FirstConflicts(r) ==
    { i \in ConflictingBookings(r) :
        \A j \in ConflictingBookings(r) : bookings[i].start_time >= bookings[j].start_time }

\* BookingEquipment.objects.create per line: unique_together (booking,
\* equipment) and the non-negative check of PositiveIntegerField reject a row.
RowRejected(rows, line) ==
    \/ line.quantity < 0
    \/ \E i \in 1..Len(rows) : rows[i].id = line.id

\* The loop "for equip_data in equipment_list": stops at the first rejected row.
RECURSIVE WriteItems(_, _)
WriteItems(equipment_list, rows) ==
    IF equipment_list = <<>> THEN [ok |-> TRUE, rows |-> rows]
    ELSE IF RowRejected(rows, Head(equipment_list)) THEN [ok |-> FALSE, rows |-> rows]
    ELSE WriteItems(Tail(equipment_list), Append(rows, Head(equipment_list)))

\* A Decimal written to a DecimalField(max_digits=10, decimal_places=2): the
\* column keeps two places, the value is rounded to the nearest hundredth.
\* The values a half can be stored as: the even neighbour where Django
\* quantizes the value itself, the upper one where the database rounds it.
Quantize(x) ==
    LET hundredths == x \div 100
        rest == x % 100
    IN IF rest < 50 THEN { hundredths * 100 }
       ELSE IF rest > 50 THEN { (hundredths + 1) * 100 }
       ELSE { (hundredths + (hundredths % 2)) * 100, (hundredths + 1) * 100 }

ConfirmPhases == {"c_wait", "c_locked", "c_checked"}

\* Request parsed; the handler is about to enter the atomic block.
ConfirmBegin(p, r) ==
    /\ pc[p] = "idle"
    /\ Len(bookings) + Cardinality({ q \in Procs : pc[q] \in ConfirmPhases }) < MaxBookings
    /\ pc' = [pc EXCEPT ![p] = "c_wait"]
    /\ req' = [req EXCEPT ![p] = r]
    /\ response' = NoResponse
    /\ UNCHANGED <<bookings, waitlist, nextWid, rules, now, price, timeslots>>

\* Lock the court row (waits while another transaction holds it).
ConfirmLock(p) ==
    /\ pc[p] = "c_wait"
    /\ IF req[p].court \notin CourtIds
       THEN Return(p, req[p], "error", 0, 0, <<>>)
       ELSE /\ CourtRowFree(req[p].court, p)
            /\ pc' = [pc EXCEPT ![p] = "c_locked"]
            /\ req' = req
            /\ response' = NoResponse
    /\ UNCHANGED <<bookings, waitlist, nextWid, rules, now, price, timeslots>>

\* Conflict re-check under the lock, then check_all_resources_available.
ConfirmCheck(p) ==
    LET r == req[p]
        availability_check ==
            check_all_resources_available(r.date, r.start_time, r.end_time,
                                          r.court, r.equipment, r.coach_id)
    IN /\ pc[p] = "c_locked"
       /\ IF ConflictingBookings(r) # {}
          THEN \E existing_booking \in FirstConflicts(r) :
                  /\ BookingRowFree(existing_booking, p)
                  /\ Return(p, req[p], "slot_full", existing_booking, 0, <<>>)
          ELSE IF UnknownEquipment(r.equipment)
          THEN Return(p, req[p], "error", 0, 0, <<>>)
          ELSE IF ~ availability_check.available
          THEN Return(p, req[p], "invalid", 0, 0, availability_check.errors)
          ELSE /\ pc' = [pc EXCEPT ![p] = "c_checked"]
               /\ req' = req
               /\ response' = NoResponse
       /\ UNCHANGED <<bookings, waitlist, nextWid, rules, now, price, timeslots>>

\* Price the booking, create it and its line items, leave the atomic block.
ConfirmWrite(p) ==
    LET r == req[p]
    IN /\ pc[p] = "c_checked"
       /\ \E order \in OrderByPriority(EnabledRules(rules)) :
            LET pricing_data ==
                    calculate_price(order, r.court, r.date, r.start_time, r.end_time,
                                    r.equipment, r.coach_id)
                written == WriteItems(r.equipment, <<>>)
            IN \E base_price \in Quantize(pricing_data.base_price),
                  total_price \in Quantize(pricing_data.total_price) :
            LET booking == [user |-> r.user, court |-> r.court, date |-> r.date,
                            start_time |-> r.start_time, end_time |-> r.end_time,
                            coach |-> r.coach_id, items |-> written.rows,
                            base_price |-> base_price,
                            total_price |-> total_price,
                            price_breakdown |-> pricing_data.breakdown,
                            status |-> "CONFIRMED"]
            IN /\ bookings' = AtomicExit(written.ok, bookings, Append(bookings, booking))
               /\ IF written.ok
                  THEN Return(p, req[p], "ok", Len(bookings) + 1, 0, <<>>)
                  ELSE Return(p, req[p], "error", 0, 0, <<>>)
       /\ UNCHANGED <<waitlist, nextWid, rules, now, price, timeslots>>

\* A call of AvailabilityService.check_all_resources_available on the
\* committed tables; Equipment.objects.get raises for an unknown id.
CheckAll(r) ==
    LET result == check_all_resources_available(r.date, r.start_time, r.end_time,
                                                r.court, r.equipment, r.coach_id)
    IN /\ response' = IF UnknownEquipment(r.equipment)
                      THEN Response("check", "error", 0, 0, <<>>, r)
                      ELSE Response("check",
                                    IF result.available THEN "available" ELSE "unavailable",
                                    0, 0, result.errors, r)
       /\ UNCHANGED <<bookings, waitlist, nextWid, rules, now, pc, req, price, timeslots>>

\* ------------------------------------------------------------- waitlist.py
\* Mutant of SameSlot: the queue is kept per court and date, whatever the window.
SameSlotAnyWindow(w, court, date, start_time, end_time) ==
    w.court = court /\ w.date = date

\* The filter court=..., date=..., start_time=..., end_time=... of the queries.
SameSlot(w, court, date, start_time, end_time) ==
    /\ w.court = court /\ w.date = date
    /\ w.start_time = start_time /\ w.end_time = end_time

Waiting(court, date, start_time, end_time) ==
    { w \in waitlist : SameSlot(w, court, date, start_time, end_time) /\ w.status = "WAITING" }

\* .order_by('created_at'): rows of equal created_at come back in any order.
RECURSIVE OrderByCreatedAt(_)
OrderByCreatedAt(ws) ==
    IF ws = {} THEN { <<>> }
    ELSE UNION { { <<w>> \o t : t \in OrderByCreatedAt(ws \ {w}) } :
                 w \in { x \in ws : \A y \in ws : x.created_at <= y.created_at } }

\* Mutant of NextInQueue: newest first (.order_by('-created_at')).
NextInQueueNewest(court, date, start_time, end_time) ==
    { w \in Waiting(court, date, start_time, end_time) :
        \A v \in Waiting(court, date, start_time, end_time) : w.created_at >= v.created_at }

\* The row notify_next_in_queue selects: .order_by('created_at').first().
NextInQueue(court, date, start_time, end_time) ==
    { w \in Waiting(court, date, start_time, end_time) :
        \A v \in Waiting(court, date, start_time, end_time) : w.created_at <= v.created_at }

\* Mutant of MarkNotified: every WAITING row of the slot is notified.
MarkNotifiedAll(w) ==
    { IF v \in Waiting(w.court, w.date, w.start_time, w.end_time)
      THEN [v EXCEPT !.status = "NOTIFIED", !.notified_at = now] ELSE v : v \in waitlist }

\* next_in_queue.status = 'NOTIFIED'; notified_at = timezone.now(); save().
MarkNotified(w) ==
    (waitlist \ {w}) \cup { [w EXCEPT !.status = "NOTIFIED", !.notified_at = now] }

\* Mutant of ExistingWaiting: the user filter is missing from the query.
ExistingAnyUser(r) == Waiting(r.court, r.date, r.start_time, r.end_time)

\* add_to_waitlist: the "existing" query.
ExistingWaiting(r) ==
    { w \in Waiting(r.court, r.date, r.start_time, r.end_time) : w.user = r.user }

\* get_waitlist_position over one ordering of the WAITING rows of the slot:
\* the index of the first row of the user, 0 for None.
RECURSIVE PositionIn(_, _, _)
PositionIn(order, i, user) ==
    IF i > Len(order) THEN 0
    ELSE IF order[i].user = user THEN i
    ELSE PositionIn(order, i + 1, user)

\* join_waitlist, first half: Court.objects.get and the duplicate check.
JoinCheck(p, r) ==
    /\ pc[p] = "idle"
    /\ IF r.court \notin CourtIds
       THEN Return(p, r, "error", 0, 0, <<>>)
       ELSE IF ExistingWaiting(r) # {}
       THEN Return(p, r, "duplicate", 0, 0, <<>>)
       ELSE /\ nextWid + Cardinality({ q \in Procs : pc[q] = "j_checked" }) <= MaxWaitlist
            /\ pc' = [pc EXCEPT ![p] = "j_checked"]
            /\ req' = [req EXCEPT ![p] = r]
            /\ response' = NoResponse
    /\ UNCHANGED <<bookings, waitlist, nextWid, rules, now, price, timeslots>>

\* join_waitlist, second half: Waitlist.objects.create, then the position.
JoinCreate(p) ==
    LET r == req[p]
        entry == [id |-> nextWid, user |-> r.user, court |-> r.court, date |-> r.date,
                  start_time |-> r.start_time, end_time |-> r.end_time,
                  status |-> "WAITING", created_at |-> now, notified_at |-> 0]
    IN /\ pc[p] = "j_checked"
       /\ waitlist' = waitlist \cup {entry}
       /\ nextWid' = nextWid + 1
       /\ \E order \in OrderByCreatedAt(
                         Waiting(r.court, r.date, r.start_time, r.end_time) \cup {entry}) :
             Return(p, r, "joined", entry.id, PositionIn(order, 1, r.user), <<>>)
       /\ UNCHANGED <<bookings, rules, now, price, timeslots>>

\* Waitlist rows locked by an open transaction: the row that the
\* select_for_update() of notify_next_in_queue returned, until the commit.
HoldsEntry(q, id) == pc[q] = "x_notifying" /\ \E w \in req[q].locked : w.id = id

\* Mutant of EntryRowFree: the notifier reads the row without locking it.
EntryRowNeverLocked(id, p) == TRUE

\* Mutant of EntryRowFree: notify_next_in_queue also waits for the lock of the
\* court row before it reads the queue.
EntryRowAndCourtFree(id, p) ==
    /\ \A q \in Procs \ {p} : ~ HoldsEntry(q, id)
    /\ \A w \in waitlist : w.id = id => CourtRowFree(w.court, p)

\* A waitlist row can be deleted when no other transaction holds its lock.
EntryRowFree(id, p) == \A q \in Procs \ {p} : ~ HoldsEntry(q, id)

\* Mutant of OwnEntry: the entry is fetched by id alone.
AnyEntry(r) == { w \in waitlist : w.id = r.target }

\* Waitlist.objects.get(id=waitlist_id, user=user)
OwnEntry(r) == { w \in waitlist : w.id = r.target /\ w.user = r.user }

\* remove_from_waitlist, first statement: Waitlist.objects.get(id=..., user=...);
\* DoesNotExist is answered False (404).
RemoveGet(p, r) ==
    /\ pc[p] = "idle"
    /\ IF OwnEntry(r) # {}
       THEN /\ pc' = [pc EXCEPT ![p] = "r_found"]
            /\ req' = [req EXCEPT ![p] = r]
            /\ response' = NoResponse
       ELSE Return(p, r, "absent", 0, 0, <<>>)
    /\ UNCHANGED <<bookings, waitlist, nextWid, rules, now, price, timeslots>>

\* remove_from_waitlist, second statement: waitlist_entry.delete(), a DELETE by
\* primary key that waits for the row's lock; the handler answers True.
RemoveDelete(p) ==
    /\ pc[p] = "r_found"
    /\ EntryRowFree(req[p].target, p)
    /\ waitlist' = { w \in waitlist : w.id # req[p].target }
    /\ Return(p, req[p], "removed", req[p].target, 0, <<>>)
    /\ UNCHANGED <<bookings, nextWid, rules, now, price, timeslots>>

\* -------------------------------------------------- views.py cancel_booking
\* Mutant of CancelTarget: the status='CONFIRMED' filter is missing.
CancelTargetAnyStatus(r) ==
    /\ r.target \in BookingIds
    /\ bookings[r.target].user = r.user

\* Mutant of CancelTarget: the user=request.user filter is missing.
CancelTargetAnyUser(r) ==
    /\ r.target \in BookingIds
    /\ bookings[r.target].status = "CONFIRMED"

\* Booking.objects.select_for_update().get(id=..., user=..., status='CONFIRMED')
CancelTarget(r) ==
    /\ r.target \in BookingIds
    /\ bookings[r.target].user = r.user
    /\ Confirmed(bookings[r.target])

CancelBegin(p, r) ==
    /\ pc[p] = "idle"
    /\ IF ~ CancelTarget(r)
       THEN Return(p, r, "not_found", 0, 0, <<>>)
       ELSE /\ BookingRowFree(r.target, p)
            /\ pc' = [pc EXCEPT ![p] = "x_locked"]
            /\ req' = [req EXCEPT ![p] = r]
            /\ response' = NoResponse
    /\ UNCHANGED <<bookings, waitlist, nextWid, rules, now, price, timeslots>>

\* cancel_booking with the wait for the row lock made visible.  CancelCall:
\* the request is parsed and the handler enters the atomic block.
CancelCall(p, r) ==
    /\ pc[p] = "idle"
    /\ pc' = [pc EXCEPT ![p] = "x_wait"]
    /\ req' = [req EXCEPT ![p] = r]
    /\ response' = NoResponse
    /\ UNCHANGED <<bookings, waitlist, nextWid, rules, now, price, timeslots>>

\* CancelLock: the select_for_update().get(...).  No committed row matches:
\* DoesNotExist, answered 404.  Otherwise the handler waits for the row lock.
CancelLock(p) ==
    /\ pc[p] = "x_wait"
    /\ IF ~ CancelTarget(req[p])
       THEN Return(p, req[p], "not_found", 0, 0, <<>>)
       ELSE /\ BookingRowFree(req[p].target, p)
            /\ pc' = [pc EXCEPT ![p] = "x_locked"]
            /\ req' = req
            /\ response' = NoResponse
    /\ UNCHANGED <<bookings, waitlist, nextWid, rules, now, price, timeslots>>

\* booking.status = 'CANCELLED'; save(); notify_next_in_queue(...); all inside
\* the one atomic block.  notify_fails: the notification step raises.
CancelFinish(p, notify_fails) ==
    LET b == bookings[req[p].target]
        heads == NextInQueue(b.court, b.date, b.start_time, b.end_time)
        cancelled == [bookings EXCEPT ![req[p].target].status = "CANCELLED"]
    IN /\ pc[p] = "x_locked"
       /\ IF heads = {}
          THEN /\ bookings' = AtomicExit(~ notify_fails, bookings, cancelled)
               /\ UNCHANGED waitlist
               /\ IF notify_fails
                  THEN Return(p, req[p], "error", req[p].target, 0, <<>>)
                  ELSE Return(p, req[p], "cancelled", req[p].target, 0, <<>>)
          ELSE \E next_in_queue \in heads :
               /\ bookings' = AtomicExit(~ notify_fails, bookings, cancelled)
               /\ waitlist' = AtomicExit(~ notify_fails, waitlist, MarkNotified(next_in_queue))
               /\ IF notify_fails
                  THEN Return(p, req[p], "error", req[p].target, 0, <<>>)
                  ELSE Return(p, req[p], "cancelled", req[p].target, next_in_queue.id, <<>>)
       /\ UNCHANGED <<nextWid, rules, now, price, timeslots>>

\* cancel_booking step by step.  CancelNotify: booking.save() and the
\* select_for_update() query of notify_next_in_queue, which locks the row it
\* returns; both stay uncommitted.
CancelNotify(p) ==
    LET b == bookings[req[p].target]
        heads == NextInQueue(b.court, b.date, b.start_time, b.end_time)
    IN /\ pc[p] = "x_locked"
       /\ IF heads = {}
          THEN req' = [req EXCEPT ![p].locked = {}]
          ELSE \E next_in_queue \in heads :
                  /\ EntryRowFree(next_in_queue.id, p)
                  /\ req' = [req EXCEPT ![p].locked = {next_in_queue}]
       /\ pc' = [pc EXCEPT ![p] = "x_notifying"]
       /\ response' = NoResponse
       /\ UNCHANGED <<bookings, waitlist, nextWid, rules, now, price, timeslots>>

\* CancelCommit: next_in_queue.save() (an UPDATE by primary key, an INSERT if
\* no row has that key), the print, and the end of the atomic block.
CancelCommit(p, notify_fails) ==
    LET cancelled == [bookings EXCEPT ![req[p].target].status = "CANCELLED"]
        saved == { [w EXCEPT !.status = "NOTIFIED", !.notified_at = now] : w \in req[p].locked }
        kept == { w \in waitlist : \A v \in req[p].locked : w.id # v.id }
    IN /\ pc[p] = "x_notifying"
       /\ bookings' = AtomicExit(~ notify_fails, bookings, cancelled)
       /\ waitlist' = AtomicExit(~ notify_fails, waitlist, kept \cup saved)
       /\ IF notify_fails
          THEN Return(p, req[p], "error", req[p].target, 0, <<>>)
          ELSE \/ /\ req[p].locked = {}
                  /\ Return(p, req[p], "cancelled", req[p].target, 0, <<>>)
               \/ \E w \in req[p].locked :
                     Return(p, req[p], "cancelled", req[p].target, w.id, <<>>)
       /\ UNCHANGED <<nextWid, rules, now, price, timeslots>>

\* ------------------------------------------------------------------- clock
\* One unit of the clock is 24 hours.
Tick ==
    /\ now < MaxTime
    /\ now' = now + 1
    /\ response' = NoResponse
    /\ UNCHANGED <<bookings, waitlist, nextWid, rules, pc, req, price, timeslots>>

\* The clock of the expiry specification, which has to run past the expiry age.
TickDay ==
    /\ now < MaxExpiryTime
    /\ now' = now + 1
    /\ response' = NoResponse
    /\ UNCHANGED <<bookings, waitlist, nextWid, rules, pc, req, price, timeslots>>

\* ------------------------------------- waitlist.py expire_old_notifications
\* timedelta(hours=24), in units of the clock.
ExpiryAge == 1

\* Mutant of Stale: notified_at__lte, an entry exactly 24 hours old expires too.
StaleOrAtExpiry(w, expiry_time) == w.status = "NOTIFIED" /\ w.notified_at <= expiry_time

\* Mutant of Stale: entries expire by their age in the queue
\* (created_at__lt=expiry_time), whatever their status.
StaleByCreation(w, expiry_time) == w.status # "EXPIRED" /\ w.created_at < expiry_time

\* The filter status='NOTIFIED', notified_at__lt=expiry_time.
Stale(w, expiry_time) == w.status = "NOTIFIED" /\ w.notified_at < expiry_time

\* One UPDATE statement; the number of rows it matched is returned.
expire_old_notifications ==
    LET expiry_time == now - ExpiryAge
        expired == { w \in waitlist : Stale(w, expiry_time) }
    IN /\ waitlist' = { IF w \in expired THEN [w EXCEPT !.status = "EXPIRED"] ELSE w :
                          w \in waitlist }
       /\ response' = Response("expire", "expired", 0, Cardinality(expired), <<>>, NoReq)
       /\ UNCHANGED <<bookings, nextWid, rules, now, pc, req, price, timeslots>>

\* ------------------------------------------- pricing rule administration
\* admin.py PricingRuleAdmin: list_editable = ['is_enabled', 'priority'].
NoPrice ==
    [evaluated |-> FALSE, error |-> "", court_id |-> 0, equipment_ids |-> <<>>, coach_id |-> 0,
     court |-> 0, date |-> 0, start_time |-> 0, end_time |-> 0,
     equipment_list |-> <<>>, coach |-> 0,
     total_price |-> 0, base_price |-> 0, breakdown |-> <<>>]

AdminSetEnabled(n, en) ==
    /\ \E r \in rules : r.name = n /\ r.is_enabled # en
    /\ rules' = { IF r.name = n THEN [r EXCEPT !.is_enabled = en] ELSE r : r \in rules }
    /\ price' = NoPrice
    /\ UNCHANGED <<bookings, waitlist, nextWid, now, pc, req, response, timeslots>>

AdminSetPriority(n, pri) ==
    /\ \E r \in rules : r.name = n /\ r.priority # pri
    /\ rules' = { IF r.name = n THEN [r EXCEPT !.priority = pri] ELSE r : r \in rules }
    /\ price' = NoPrice
    /\ UNCHANGED <<bookings, waitlist, nextWid, now, pc, req, response, timeslots>>

\* The rule's change form: the 'Pricing Configuration' fieldset holds flat_fee.
AdminSetFlatFee(n, fee) ==
    /\ \E r \in rules : r.name = n /\ r.flat_fee # fee
    /\ rules' = { IF r.name = n THEN [r EXCEPT !.flat_fee = fee] ELSE r : r \in rules }
    /\ price' = NoPrice
    /\ UNCHANGED <<bookings, waitlist, nextWid, now, pc, req, response, timeslots>>

\* Mutant of AdminSetMultiplier: saving a rule clears the prices of the stored
\* bookings so that they are computed again.
AdminSetMultiplierReprice(n, m) ==
    /\ \E r \in rules : r.name = n /\ r.multiplier # m
    /\ rules' = { IF r.name = n THEN [r EXCEPT !.multiplier = m] ELSE r : r \in rules }
    /\ bookings' = [i \in DOMAIN bookings |->
                       [bookings[i] EXCEPT !.total_price = 0, !.price_breakdown = <<>>]]
    /\ price' = NoPrice
    /\ UNCHANGED <<waitlist, nextWid, now, pc, req, response, timeslots>>

\* The same fieldset holds multiplier, a DecimalField with two places.
AdminSetMultiplier(n, m) ==
    /\ \E r \in rules : r.name = n /\ r.multiplier # m
    /\ rules' = { IF r.name = n THEN [r EXCEPT !.multiplier = m] ELSE r : r \in rules }
    /\ price' = NoPrice
    /\ UNCHANGED <<bookings, waitlist, nextWid, now, pc, req, response, timeslots>>

\* PricingRule.objects.create(...): rule_type is a CharField whose choices the
\* database does not enforce, so a row can carry a type the engine does not
\* know.
CreateRule(rule) ==
    /\ ~ \E r \in rules : r.name = rule.name
    /\ rules' = rules \cup {rule}
    /\ price' = NoPrice
    /\ UNCHANGED <<bookings, waitlist, nextWid, now, pc, req, response, timeslots>>

\* api_calculate_price -> get_price_preview -> calculate_price, for ids that exist.
CalculatePrice(court, date, start_time, end_time, equipment_list, coach) ==
    /\ \E order \in OrderByPriority(EnabledRules(rules)) :
         LET pricing_data ==
                 calculate_price(order, court, date, start_time, end_time,
                                 equipment_list, coach)
         IN price' = [evaluated |-> TRUE, error |-> "", court_id |-> court,
                      equipment_ids |-> equipment_list, coach_id |-> coach,
                      court |-> court, date |-> date,
                      start_time |-> start_time, end_time |-> end_time,
                      equipment_list |-> equipment_list, coach |-> coach,
                      total_price |-> pricing_data.total_price,
                      base_price |-> pricing_data.base_price,
                      breakdown |-> pricing_data.breakdown]
    /\ UNCHANGED <<bookings, waitlist, nextWid, rules, now, pc, req, response, timeslots>>

\* list(Equipment.objects.filter(id__in=equipment_ids)): the rows whose id is
\* among the ids, each row once, in Meta.ordering (by name, which is by id
\* here); an id without a row selects nothing.
RECURSIVE EquipmentFilterIdIn(_)
EquipmentFilterIdIn(ids) ==
    IF ids \cap EquipmentIds = {} THEN <<>>
    ELSE LET first == CHOOSE e \in ids \cap EquipmentIds :
                         \A f \in ids \cap EquipmentIds : e <= f
         IN <<first>> \o EquipmentFilterIdIn(ids \ {first})

\* api_calculate_price -> get_price_preview, for any ids: an unknown court is
\* answered {'error': 'Court not found'}; Coach.DoesNotExist is passed over,
\* leaving coach = None.
get_price_preview(court_id, date, start_time, end_time, equipment_ids, coach_id) ==
    /\ IF court_id \notin CourtIds
       THEN price' = [NoPrice EXCEPT !.error = "Court not found", !.court_id = court_id,
                                     !.equipment_ids = equipment_ids, !.coach_id = coach_id,
                                     !.date = date, !.start_time = start_time,
                                     !.end_time = end_time]
       ELSE LET equipment_list ==
                    EquipmentFilterIdIn({ equipment_ids[i] : i \in 1..Len(equipment_ids) })
                coach == IF coach_id \in CoachIds THEN coach_id ELSE 0
            IN \E order \in OrderByPriority(EnabledRules(rules)) :
                  LET pricing_data ==
                          calculate_price(order, court_id, date, start_time, end_time,
                                          equipment_list, coach)
                  IN price' = [evaluated |-> TRUE, error |-> "", court_id |-> court_id,
                               equipment_ids |-> equipment_ids, coach_id |-> coach_id,
                               court |-> court_id, date |-> date,
                               start_time |-> start_time, end_time |-> end_time,
                               equipment_list |-> equipment_list, coach |-> coach,
                               total_price |-> pricing_data.total_price,
                               base_price |-> pricing_data.base_price,
                               breakdown |-> pricing_data.breakdown]
    /\ UNCHANGED <<bookings, waitlist, nextWid, rules, now, pc, req, response, timeslots>>

\* ------------------------------------------ availability.py get_time_slots
\* Times of day are minutes since midnight.
time(hour, minute) == hour * 60 + minute

\* No call of get_time_slots yet.
NoSlots ==
    [pc |-> "none", date |-> 0, slot_duration_minutes |-> 0,
     current_time |-> 0, slots |-> <<>>]

\* The statements before the loop: slots = [], current_time = time(6, 0).
get_time_slots(date, slot_duration_minutes) ==
    /\ timeslots.pc # "loop"
    /\ timeslots' = [pc |-> "loop", date |-> date,
                     slot_duration_minutes |-> slot_duration_minutes,
                     current_time |-> time(6, 0), slots |-> <<>>]
    /\ response' = NoResponse
    /\ UNCHANGED <<bookings, waitlist, nextWid, rules, now, pc, req, price>>

\* (datetime.combine(date, current_time) + timedelta(minutes=...)).time():
\* the time of day of the sum; the date part, and with it a step past
\* midnight, is dropped.
SlotEndTime(current_time, slot_duration_minutes) ==
    (current_time + slot_duration_minutes) % (24 * 60)

\* One evaluation of the loop condition and, if it holds, one pass through the
\* loop body; "return slots" when the loop is left.
get_time_slots_loop ==
    LET end_time_limit == time(22, 0)
        slot_end_time == SlotEndTime(timeslots.current_time, timeslots.slot_duration_minutes)
    IN /\ timeslots.pc = "loop"
       /\ IF timeslots.current_time < end_time_limit /\ ~ (slot_end_time > end_time_limit)
          THEN /\ Len(timeslots.slots) < MaxSlots
               /\ timeslots' =
                     [timeslots EXCEPT
                        !.slots = Append(@, [start_time |-> timeslots.current_time,
                                             end_time |-> slot_end_time]),
                        !.current_time = slot_end_time]
          ELSE timeslots' = [timeslots EXCEPT !.pc = "returned"]
       /\ response' = NoResponse
       /\ UNCHANGED <<bookings, waitlist, nextWid, rules, now, pc, req, price>>

\* Lines to ids: the equipment_ids the booking page sends to the preview for
\* the lines it later sends to confirm_booking.
RECURSIVE LineIds(_)
LineIds(equipment) ==
    IF equipment = <<>> THEN <<>> ELSE << Head(equipment).id >> \o LineIds(Tail(equipment))

\* What get_price_preview returns for an existing court when the rule query
\* returns the rules in the given order.
PreviewData(order, court_id, date, start_time, end_time, equipment_ids, coach_id) ==
    LET equipment_list ==
            EquipmentFilterIdIn({ equipment_ids[i] : i \in 1..Len(equipment_ids) })
        coach == IF coach_id \in CoachIds THEN coach_id ELSE 0
    IN calculate_price(order, court_id, date, start_time, end_time, equipment_list, coach)

\* ------------------------------------------------------------ specification
Users == {1, 2}

Init ==
    /\ bookings = <<>>
    /\ waitlist = {}
    /\ nextWid = 1
    /\ rules = SeedRules
    /\ now = 1
    /\ pc = [p \in Procs |-> "idle"]
    /\ req = [p \in Procs |-> NoReq]
    /\ response = NoResponse
    /\ price = NoPrice
    /\ timeslots = NoSlots

\* Spec: the reservation manager under concurrent confirm and cancel requests.
\* Date 5 is a Saturday.  The requests: the windows 17-19, 18-20 (overlaps
\* 17-19 partially, with one racket) and 19-20 (adjacent to 17-19, inside
\* 18-20) on court 1 by either user; court 2 with two line items; a request whose second line item
\* the database rejects; one naming an unknown equipment id; one naming an
\* unknown coach and more rackets than the pool holds.
ConfirmRequests ==
    { Req("confirm", u, 1, 5, w[1], w[2], <<>>, 0, 0) :
        u \in Users, w \in { <<17, 19>>, <<19, 20>> } }
    \cup { Req("confirm", u, 1, 5, 18, 20, << Line(1, 1) >>, 0, 0) : u \in Users }
    \cup { Req("confirm", 1, 2, 5, 17, 19, << Line(1, 1), Line(2, 1) >>, 0, 0),
           Req("confirm", 2, 1, 5, 17, 19, << Line(1, 1), Line(1, 1) >>, 0, 0),
           Req("confirm", 2, 1, 5, 19, 20, << Line(9, 1) >>, 0, 0),
           Req("confirm", 1, 1, 5, 18, 20, << Line(1, 3) >>, 9, 0) }

CancelRequests ==
    { Req("cancel", u, 0, 0, 0, 0, <<>>, 0, b) : u \in Users, b \in 1..MaxBookings }

Next ==
    \/ \E p \in Procs, r \in ConfirmRequests : ConfirmBegin(p, r)
    \/ \E p \in Procs : ConfirmLock(p)
    \/ \E p \in Procs : ConfirmCheck(p)
    \/ \E p \in Procs : ConfirmWrite(p)
    \/ \E p \in Procs, r \in CancelRequests : CancelBegin(p, r)
    \/ \E p \in Procs, f \in BOOLEAN : CancelFinish(p, f)

Spec == Init /\ [][Next]_vars

\* SpecWaitlist: one slot (court 1, Saturday, 17-19) that user 1 books and
\* cancels while both users join its waitlist and the clock advances.
WaitlistConfirmRequests == { Req("confirm", 1, 1, 5, 17, 19, <<>>, 0, 0) }

WaitlistCancelRequests ==
    { Req("cancel", 1, 0, 0, 0, 0, <<>>, 0, b) : b \in 1..MaxBookings }

JoinRequests == { Req("join", u, 1, 5, 17, 19, <<>>, 0, 0) : u \in Users }

NextWaitlist ==
    \/ \E p \in Procs, r \in WaitlistConfirmRequests : ConfirmBegin(p, r)
    \/ \E p \in Procs : ConfirmLock(p)
    \/ \E p \in Procs : ConfirmCheck(p)
    \/ \E p \in Procs : ConfirmWrite(p)
    \/ \E p \in Procs, r \in WaitlistCancelRequests : CancelBegin(p, r)
    \/ \E p \in Procs, f \in BOOLEAN : CancelFinish(p, f)
    \/ \E p \in Procs, r \in JoinRequests : JoinCheck(p, r)
    \/ \E p \in Procs : JoinCreate(p)
    \/ Tick

SpecWaitlist == Init /\ [][NextWaitlist]_vars

\* SpecExpiry: user 2 queues for the slot that user 1 books and cancels, and
\* the expiry job runs at any time while the clock advances day by day.
ExpiryJoinRequests == { Req("join", 2, 1, 5, 17, 19, <<>>, 0, 0) }

NextExpiry ==
    \/ \E p \in Procs, r \in WaitlistConfirmRequests : ConfirmBegin(p, r)
    \/ \E p \in Procs : ConfirmLock(p)
    \/ \E p \in Procs : ConfirmCheck(p)
    \/ \E p \in Procs : ConfirmWrite(p)
    \/ \E p \in Procs, r \in WaitlistCancelRequests : CancelBegin(p, r)
    \/ \E p \in Procs : CancelFinish(p, FALSE)
    \/ \E p \in Procs, r \in ExpiryJoinRequests : JoinCheck(p, r)
    \/ \E p \in Procs : JoinCreate(p)
    \/ expire_old_notifications
    \/ TickDay

SpecExpiry == Init /\ [][NextExpiry]_vars

\* SpecEquipment: bookings that rent equipment, made and cancelled: court 2 at
\* 17-19 with a racket and a pair of shoes, court 1 at 18-20 with a racket, and
\* court 1 at 16-17 with both rackets.
EquipmentConfirmRequests ==
    { Req("confirm", 1, 2, 5, 17, 19, << Line(1, 1), Line(2, 1) >>, 0, 0),
      Req("confirm", 2, 1, 5, 18, 20, << Line(1, 1) >>, 0, 0),
      Req("confirm", 1, 1, 5, 16, 17, << Line(1, 2) >>, 0, 0) }

NextEquipment ==
    \/ \E p \in Procs, r \in EquipmentConfirmRequests : ConfirmBegin(p, r)
    \/ \E p \in Procs : ConfirmLock(p)
    \/ \E p \in Procs : ConfirmCheck(p)
    \/ \E p \in Procs : ConfirmWrite(p)
    \/ \E p \in Procs, r \in CancelRequests : CancelBegin(p, r)
    \/ \E p \in Procs : CancelFinish(p, FALSE)

SpecEquipment == Init /\ [][NextEquipment]_vars

\* SpecSlots: the waitlists of three slots, court 1 at 17-19, court 1 at 18-20
\* (an overlapping window) and court 2 at 17-19, while the booking of court 1
\* at 17-19 is made and cancelled.
SlotJoinRequests ==
    { Req("join", u, k[1], 5, k[2], k[3], <<>>, 0, 0) :
        u \in Users, k \in { <<1, 17, 19>>, <<1, 18, 20>>, <<2, 17, 19>> } }

NextSlots ==
    \/ \E p \in Procs, r \in WaitlistConfirmRequests : ConfirmBegin(p, r)
    \/ \E p \in Procs : ConfirmLock(p)
    \/ \E p \in Procs : ConfirmCheck(p)
    \/ \E p \in Procs : ConfirmWrite(p)
    \/ \E p \in Procs, r \in WaitlistCancelRequests : CancelBegin(p, r)
    \/ \E p \in Procs, f \in BOOLEAN : CancelFinish(p, f)
    \/ \E p \in Procs, r \in SlotJoinRequests : JoinCheck(p, r)
    \/ \E p \in Procs : JoinCreate(p)

SpecSlots == Init /\ [][NextSlots]_vars

\* SpecQueue: the waitlist of one slot (court 1, Saturday, 17-19) under
\* concurrent joins, removals and cancellations, with the cancellation taken
\* statement by statement; a second window of the court is booked meanwhile.
QueueConfirmRequests ==
    { Req("confirm", 1, 1, 5, 17, 19, <<>>, 0, 0), Req("confirm", 2, 1, 5, 19, 20, <<>>, 0, 0) }

QueueCancelRequests == { Req("cancel", 1, 0, 0, 0, 0, <<>>, 0, 1) }

RemoveRequests ==
    { Req("remove", u, 0, 0, 0, 0, <<>>, 0, w) : u \in Users, w \in 1..MaxWaitlist }

NextQueue ==
    \/ \E p \in Procs, r \in QueueConfirmRequests : ConfirmBegin(p, r)
    \/ \E p \in Procs : ConfirmLock(p)
    \/ \E p \in Procs : ConfirmCheck(p)
    \/ \E p \in Procs : ConfirmWrite(p)
    \/ \E p \in Procs, r \in QueueCancelRequests : CancelBegin(p, r)
    \/ \E p \in Procs : CancelNotify(p)
    \/ \E p \in Procs, f \in BOOLEAN : CancelCommit(p, f)
    \/ \E p \in Procs, r \in JoinRequests : JoinCheck(p, r)
    \/ \E p \in Procs : JoinCreate(p)
    \/ \E p \in Procs, r \in RemoveRequests : RemoveGet(p, r)
    \/ \E p \in Procs : RemoveDelete(p)

SpecQueue == Init /\ [][NextQueue]_vars

\* SpecRemove: joins and removals of the waitlist of one slot by both users
\* while the slot's booking is made and cancelled statement by statement.
NextRemove ==
    \/ \E p \in Procs, r \in WaitlistConfirmRequests : ConfirmBegin(p, r)
    \/ \E p \in Procs : ConfirmLock(p)
    \/ \E p \in Procs : ConfirmCheck(p)
    \/ \E p \in Procs : ConfirmWrite(p)
    \/ \E p \in Procs, r \in QueueCancelRequests : CancelBegin(p, r)
    \/ \E p \in Procs : CancelNotify(p)
    \/ \E p \in Procs : CancelCommit(p, FALSE)
    \/ \E p \in Procs, r \in JoinRequests : JoinCheck(p, r)
    \/ \E p \in Procs : JoinCreate(p)
    \/ \E p \in Procs, r \in RemoveRequests : RemoveGet(p, r)
    \/ \E p \in Procs : RemoveDelete(p)

SpecRemove == Init /\ [][NextRemove]_vars

\* SpecPrice: price evaluations while the administrator enables, disables and
\* re-prioritises the seeded rules and changes the racket fee between 50.00
\* and 49.99.  Date 4 is a Friday, date 5 a Saturday.
NextPrice ==
    \/ \E n \in {2, 4}, en \in BOOLEAN : AdminSetEnabled(n, en)
    \/ \E n \in {2, 3}, pri \in {1, 2, 4} : AdminSetPriority(n, pri)
    \/ \E fee \in {Dec(50), Dec(50) - 100} : AdminSetFlatFee(4, fee)
    \/ \E court \in ActiveCourtIds, date \in {4, 5}, w \in { <<17, 18>>, <<17, 19>> },
          equipment_list \in { <<>>, <<1>>, <<1, 2>> }, coach \in {0, 2} :
          CalculatePrice(court, date, w[1], w[2], equipment_list, coach)

SpecPrice == Init /\ [][NextPrice]_vars

\* SpecOverlap: the back-to-back windows 17-18 and 18-19 of court 1 and the
\* window 17-19 over both, and price evaluations of windows before, touching,
\* inside and after the peak hours 18-21 while the peak rule is enabled and
\* disabled.
OverlapConfirmRequests ==
    { Req("confirm", 1, 1, 5, 17, 18, <<>>, 0, 0),
      Req("confirm", 2, 1, 5, 18, 19, <<>>, 0, 0),
      Req("confirm", 2, 1, 5, 17, 19, <<>>, 0, 0) }

NextOverlap ==
    \/ \E p \in Procs, r \in OverlapConfirmRequests : ConfirmBegin(p, r)
    \/ \E p \in Procs : ConfirmLock(p)
    \/ \E p \in Procs : ConfirmCheck(p)
    \/ \E p \in Procs : ConfirmWrite(p)
    \/ \E en \in BOOLEAN : AdminSetEnabled(3, en)
    \/ \E w \in { <<17, 18>>, <<17, 19>>, <<20, 21>>, <<21, 22>> } :
          CalculatePrice(1, 5, w[1], w[2], <<>>, 0)

SpecOverlap == Init /\ [][NextOverlap]_vars

\* SpecShared: two requests for different courts and overlapping windows that
\* name the same coach and the only pair of shoes, served concurrently, and
\* cancellations.
SharedConfirmRequests ==
    { Req("confirm", 1, 1, 5, 17, 19, << Line(2, 1) >>, 2, 0),
      Req("confirm", 2, 2, 5, 18, 20, << Line(2, 1) >>, 2, 0) }

NextShared ==
    \/ \E p \in Procs, r \in SharedConfirmRequests : ConfirmBegin(p, r)
    \/ \E p \in Procs : ConfirmLock(p)
    \/ \E p \in Procs : ConfirmCheck(p)
    \/ \E p \in Procs : ConfirmWrite(p)
    \/ \E p \in Procs, r \in CancelRequests : CancelBegin(p, r)
    \/ \E p \in Procs : CancelFinish(p, FALSE)

SpecShared == Init /\ [][NextShared]_vars

\* SpecActive: requests that name the deactivated court or the deactivated
\* coach next to a request for active ones, and cancellations.
ActiveConfirmRequests ==
    { Req("confirm", 1, 3, 5, 17, 19, <<>>, 0, 0),
      Req("confirm", 2, 1, 5, 17, 19, <<>>, 4, 0),
      Req("confirm", 1, 1, 5, 18, 20, <<>>, 2, 0) }

NextActive ==
    \/ \E p \in Procs, r \in ActiveConfirmRequests : ConfirmBegin(p, r)
    \/ \E p \in Procs : ConfirmLock(p)
    \/ \E p \in Procs : ConfirmCheck(p)
    \/ \E p \in Procs : ConfirmWrite(p)
    \/ \E p \in Procs, r \in CancelRequests : CancelBegin(p, r)
    \/ \E p \in Procs : CancelFinish(p, FALSE)

SpecActive == Init /\ [][NextActive]_vars

\* SpecRebook: either user books court 1 for Saturday 17-19 with the only pair
\* of shoes and coach 2, user 1 cancels, user 2 queues for the slot and the
\* slot is booked again.
RebookConfirmRequests ==
    { Req("confirm", u, 1, 5, 17, 19, << Line(2, 1) >>, 2, 0) : u \in Users }

NextRebook ==
    \/ \E p \in Procs, r \in RebookConfirmRequests : ConfirmBegin(p, r)
    \/ \E p \in Procs : ConfirmLock(p)
    \/ \E p \in Procs : ConfirmCheck(p)
    \/ \E p \in Procs : ConfirmWrite(p)
    \/ \E p \in Procs, r \in WaitlistCancelRequests : CancelBegin(p, r)
    \/ \E p \in Procs : CancelFinish(p, FALSE)
    \/ \E p \in Procs, r \in ExpiryJoinRequests : JoinCheck(p, r)
    \/ \E p \in Procs : JoinCreate(p)

SpecRebook == Init /\ [][NextRebook]_vars

\* SpecLive: concurrent confirm, cancel and join handlers taken step by step,
\* every wait for a row lock a state of its own.  The requests cover the exits
\* of the handlers: success, slot taken, validation failure (two pairs of
\* shoes), not found, and an exception (the notification fails).
LiveConfirmRequests ==
    { Req("confirm", 1, 1, 5, 17, 19, <<>>, 0, 0),
      Req("confirm", 2, 1, 5, 18, 20, << Line(2, 2) >>, 0, 0) }

NextLive ==
    \/ \E p \in Procs, r \in LiveConfirmRequests : ConfirmBegin(p, r)
    \/ \E p \in Procs : ConfirmLock(p)
    \/ \E p \in Procs : ConfirmCheck(p)
    \/ \E p \in Procs : ConfirmWrite(p)
    \/ \E p \in Procs, r \in QueueCancelRequests : CancelCall(p, r)
    \/ \E p \in Procs : CancelLock(p)
    \/ \E p \in Procs : CancelNotify(p)
    \/ \E p \in Procs, notify_fails \in BOOLEAN : CancelCommit(p, notify_fails)
    \/ \E p \in Procs, r \in ExpiryJoinRequests : JoinCheck(p, r)
    \/ \E p \in Procs : JoinCreate(p)

\* The next statement of the handler p inside its request.
HandlerStep(p) ==
    \/ ConfirmLock(p) \/ ConfirmCheck(p) \/ ConfirmWrite(p)
    \/ CancelLock(p) \/ CancelNotify(p)
    \/ \E notify_fails \in BOOLEAN : CancelCommit(p, notify_fails)
    \/ JoinCreate(p)

\* Scheduling: each request runs in its own worker, so a handler whose next
\* statement can run runs it; a handler waiting for a row lock gets the lock
\* when it is released again and again (the database queues lock waiters).
\* A statement that waits for no lock stays enabled until it is taken, so
\* strong fairness of the handler's step is weak fairness there.
FairLive == \A p \in Procs : SF_vars(HandlerStep(p))

SpecLive == Init /\ [][NextLive]_vars /\ FairLive

\* SpecStored: user 1 books the indoor court for Saturday 18-20 with a racket
\* and coach 2 (every seeded rule applies) and cancels, while an administrator
\* sets the multipliers of percentage rules to 1.25.
StoredConfirmRequests == { Req("confirm", 1, 1, 5, 18, 20, << Line(1, 1) >>, 2, 0) }

NextStored ==
    \/ \E p \in Procs, r \in StoredConfirmRequests : ConfirmBegin(p, r)
    \/ \E p \in Procs : ConfirmLock(p)
    \/ \E p \in Procs : ConfirmCheck(p)
    \/ \E p \in Procs : ConfirmWrite(p)
    \/ \E p \in Procs, r \in WaitlistCancelRequests : CancelBegin(p, r)
    \/ \E p \in Procs : CancelFinish(p, FALSE)
    \/ \E n \in {2, 3, 6} : AdminSetMultiplier(n, 125)

SpecStored == Init /\ [][NextStored]_vars

\* SpecTimeSlots: calls of get_time_slots with the default duration of the
\* booking page and with other positive durations, among them 18, 20 and 24
\* hours.
SlotDurations == {30, 45, 60, 90, 1080, 1200, 1440}

NextTimeSlots ==
    \/ \E slot_duration_minutes \in SlotDurations : get_time_slots(5, slot_duration_minutes)
    \/ get_time_slots_loop

SpecTimeSlots == Init /\ [][NextTimeSlots]_vars

\* SpecCancel: cancel requests by either user for any booking id, the booking
\* of user 1 and the waitlist entry of user 2 for the same slot.
NextCancel ==
    \/ \E p \in Procs, r \in WaitlistConfirmRequests : ConfirmBegin(p, r)
    \/ \E p \in Procs : ConfirmLock(p)
    \/ \E p \in Procs : ConfirmCheck(p)
    \/ \E p \in Procs : ConfirmWrite(p)
    \/ \E p \in Procs, r \in CancelRequests : CancelBegin(p, r)
    \/ \E p \in Procs : CancelFinish(p, FALSE)
    \/ \E p \in Procs, r \in ExpiryJoinRequests : JoinCheck(p, r)
    \/ \E p \in Procs : JoinCreate(p)

SpecCancel == Init /\ [][NextCancel]_vars

\* SpecCheck: bookings with coaches and equipment, and availability checks of
\* requests that fail on the court, on one or two equipment lines and on the
\* coach at once.  Date 4 is a Friday: coach 1 is available 9-18 and 18-21;
\* date 5 is a Saturday: coach 2 is available 10-20, coach 1 not at all.
CheckConfirmRequests ==
    { Req("confirm", 1, 1, 5, 17, 19, << Line(1, 2) >>, 2, 0),
      Req("confirm", 2, 2, 4, 17, 19, <<>>, 1, 0),
      Req("confirm", 2, 2, 5, 19, 21, <<>>, 2, 0),
      Req("confirm", 2, 2, 4, 16, 18, <<>>, 1, 0),
      Req("confirm", 2, 2, 4, 18, 20, <<>>, 1, 0) }

CheckRequests ==
    { Req("check", 0, 1, 5, 18, 20, eq, k, 0) :
        eq \in { <<>>, << Line(1, 1) >>, << Line(1, 1), Line(2, 2) >>, << Line(9, 1) >> },
        k \in {0, 1, 2} }

NextCheck ==
    \/ \E p \in Procs, r \in CheckConfirmRequests : ConfirmBegin(p, r)
    \/ \E p \in Procs : ConfirmLock(p)
    \/ \E p \in Procs : ConfirmCheck(p)
    \/ \E p \in Procs : ConfirmWrite(p)
    \/ \E r \in CheckRequests : CheckAll(r)

SpecCheck == Init /\ [][NextCheck]_vars

\* SpecInput: confirm requests as the client may send them, court 1 on a
\* Saturday: a proper window, a window that ends before it starts, an empty
\* window, and line items with quantity 0 and -1.
InputConfirmRequests ==
    { Req("confirm", 1, 1, 5, 17, 19, <<>>, 0, 0),
      Req("confirm", 1, 1, 5, 19, 17, <<>>, 0, 0),
      Req("confirm", 2, 1, 5, 18, 18, <<>>, 0, 0),
      Req("confirm", 2, 1, 5, 19, 20, << Line(1, 0) >>, 0, 0),
      Req("confirm", 2, 1, 5, 16, 17, << Line(2, 1), Line(1, -1) >>, 0, 0) }

NextInput ==
    \/ \E p \in Procs, r \in InputConfirmRequests : ConfirmBegin(p, r)
    \/ \E p \in Procs : ConfirmLock(p)
    \/ \E p \in Procs : ConfirmCheck(p)
    \/ \E p \in Procs : ConfirmWrite(p)
    \/ \E p \in Procs, r \in CancelRequests : CancelBegin(p, r)
    \/ \E p \in Procs : CancelFinish(p, FALSE)

SpecInput == Init /\ [][NextInput]_vars

\* SpecFees: price evaluations on a Friday and a Saturday, with and without
\* equipment and a coach, while the coach fee and the indoor premium are
\* enabled and disabled, the coach fee rule's own flat_fee is set to 0 or 75,
\* and a rule of the unknown type HOLIDAY (x2.00 or a flat 40, first or last in
\* priority) is created, enabled and disabled.
NextFees ==
    \/ \E n \in {1, 2, 7}, en \in BOOLEAN : AdminSetEnabled(n, en)
    \/ \E fee \in {Dec(0), Dec(75)} : AdminSetFlatFee(1, fee)
    \/ \E pct \in BOOLEAN, pri \in {0, 7} :
          CreateRule(Rule(7, "HOLIDAY", 200, Dec(40), pct, TRUE, pri, 0, 0, {}))
    \/ \E court \in ActiveCourtIds, date \in {4, 5}, equipment_list \in { <<>>, <<1, 2>> },
          coach \in {0, 1, 3} :
          CalculatePrice(court, date, 17, 18, equipment_list, coach)

SpecFees == Init /\ [][NextFees]_vars

\* SpecPreview: price previews that name courts, equipment and coaches with
\* and without a row (id 9 has none), on a Saturday evening, while the
\* administrator enables and disables the coach fee and the racket fee.
NextPreview ==
    \/ \E n \in {1, 4}, en \in BOOLEAN : AdminSetEnabled(n, en)
    \/ \E court_id \in {1, 2, 9}, w \in { <<17, 18>>, <<18, 19>> },
          equipment_ids \in { <<>>, <<1>>, <<9>>, <<1, 9>>, <<1, 2>> }, coach_id \in {0, 2, 9} :
          get_price_preview(court_id, 5, w[1], w[2], equipment_ids, coach_id)

SpecPreview == Init /\ [][NextPreview]_vars

\* ==================================================================== claims
SameSlotBooking(b, r) ==
    /\ b.court = r.court /\ b.date = r.date
    /\ b.start_time = r.start_time /\ b.end_time = r.end_time

\* C1: no two distinct CONFIRMED reservations of one court and date, both with
\* start < end, have overlapping windows (start1 < end2 and end1 > start2),
\* whatever the interleaving of confirm and cancel requests.
C1_NoOverlappingConfirmed ==
    \A i, j \in BookingIds :
        ( /\ i # j
          /\ bookings[i].status = "CONFIRMED" /\ bookings[j].status = "CONFIRMED"
          /\ bookings[i].court = bookings[j].court
          /\ bookings[i].date = bookings[j].date
          /\ bookings[i].start_time < bookings[i].end_time
          /\ bookings[j].start_time < bookings[j].end_time )
        => ~ ( /\ bookings[i].start_time < bookings[j].end_time
               /\ bookings[i].end_time > bookings[j].start_time )

\* Two CONFIRMED reservations stand side by side on one court and date.
C1_Witness ==
    \E i, j \in BookingIds :
        /\ i # j
        /\ bookings[i].status = "CONFIRMED" /\ bookings[j].status = "CONFIRMED"
        /\ bookings[i].court = bookings[j].court
        /\ bookings[i].date = bookings[j].date
        /\ bookings[i].end_time = bookings[j].start_time

\* C2: of the confirm calls naming one court, date and window at most one
\* holds the slot: there is never a second CONFIRMED reservation of that
\* court, date and window; a call that succeeds has made the only one; a call
\* that does not succeed while another call's CONFIRMED reservation holds the
\* slot is answered slot-taken.
C2_AtMostOneWinner ==
    /\ \A i, j \in BookingIds :
          ( /\ i # j
            /\ bookings[i].status = "CONFIRMED" /\ bookings[j].status = "CONFIRMED" )
          => ~ SameSlotBooking(bookings[i], bookings[j])
    /\ response.op = "confirm" =>
          LET holders == { i \in BookingIds : /\ bookings[i].status = "CONFIRMED"
                                               /\ SameSlotBooking(bookings[i], response.req) }
          IN /\ response.res = "ok" => holders = { response.id }
             /\ (response.res # "ok" /\ holders # {}) => response.res = "slot_full"

\* One call has just succeeded while a concurrent call for the same court,
\* date and window is still waiting for the court lock.
C2_Witness ==
    \E p \in Procs :
        /\ pc[p] = "c_wait"
        /\ response.op = "confirm" /\ response.res = "ok"
        /\ SameSlotBooking(response.req, req[p])

\* C3: while one confirm call is between taking the court-row lock and the end
\* of its transaction, no other confirm call on that court is past the lock
\* (doing its re-check or its write).
C3_CourtSerialized ==
    \A p, q \in Procs :
        ( /\ p # q
          /\ pc[p] \in {"c_locked", "c_checked"}
          /\ pc[q] \in {"c_locked", "c_checked"} )
        => req[p].court # req[q].court

\* One call has passed its checks and holds the court while another call on
\* that court waits for the lock.
C3_Witness ==
    \E p, q \in Procs :
        /\ pc[p] = "c_checked" /\ pc[q] = "c_wait"
        /\ req[p].court = req[q].court

\* C4: a confirm call that fails leaves the Reservation table (rows and line
\* items) as it was; one that succeeds adds exactly one reservation carrying
\* all the line items the request listed; either way the waitlist is untouched.
C4_ConfirmAllOrNothing ==
    [][ \A p \in Procs :
          (pc[p] \in ConfirmPhases /\ pc'[p] = "idle") =>
             /\ waitlist' = waitlist
             /\ IF response'.res = "ok"
                THEN /\ Len(bookings') = Len(bookings) + 1
                     /\ SubSeq(bookings', 1, Len(bookings)) = bookings
                     /\ bookings'[Len(bookings')].items = req[p].equipment
                     /\ response'.id = Len(bookings')
                ELSE bookings' = bookings ]_vars

\* A call has just failed while writing its second line item, after the
\* reservation and the first line item were written.
C4_Witness ==
    /\ response.op = "confirm" /\ response.res = "error"
    /\ Len(response.req.equipment) = 2
    /\ \A i \in 1..2 : response.req.equipment[i].id \in EquipmentIds

\* C5: a successful cancellation of a reservation whose slot has WAITING
\* entries moves exactly one of them, one with the smallest created_at, to
\* NOTIFIED with notified_at set to the current time, and changes no other
\* entry; with no WAITING entry it changes none.
C5_CancelNotifiesOldest ==
    [][ \A p \in Procs :
          (pc[p] = "x_locked" /\ pc'[p] = "idle" /\ response'.res = "cancelled") =>
             LET b == bookings[req[p].target]
                 queue == { w \in waitlist :
                              /\ w.court = b.court /\ w.date = b.date
                              /\ w.start_time = b.start_time /\ w.end_time = b.end_time
                              /\ w.status = "WAITING" }
             IN /\ b.status = "CONFIRMED"
                /\ bookings'[req[p].target].status = "CANCELLED"
                /\ IF queue = {}
                   THEN waitlist' = waitlist /\ response'.aux = 0
                   ELSE \E w \in queue :
                           /\ \A v \in queue : w.created_at <= v.created_at
                           /\ now > 0
                           /\ waitlist' = (waitlist \ {w}) \cup
                                  { [w EXCEPT !.status = "NOTIFIED", !.notified_at = now] }
                           /\ response'.aux = w.id ]_vars

\* A cancellation has just notified one entry while another entry of the same
\* slot stays WAITING.
C5_Witness ==
    /\ response.op = "cancel" /\ response.res = "cancelled"
    /\ \E w, v \in waitlist :
          /\ w.id = response.aux /\ w.status = "NOTIFIED"
          /\ v.id # w.id /\ v.status = "WAITING"
          /\ SameSlotBooking(w, v)

\* C6: when the notification step of a cancellation fails, the reservation is
\* CANCELLED all the same.
C6_NotifyFailureKeepsCancellation ==
    (response.op = "cancel" /\ response.res = "error")
        => bookings[response.id].status = "CANCELLED"

\* C7: within one slot notification order is join order: an entry is never
\* past WAITING while one created earlier is still WAITING, and of two
\* notified entries the one created earlier was notified no later.
C7_Fifo ==
    \A a, b \in waitlist :
        (SameSlotBooking(a, b) /\ a.created_at < b.created_at) =>
            /\ a.status = "WAITING" => b.status = "WAITING"
            /\ (a.status # "WAITING" /\ b.status # "WAITING")
                   => a.notified_at <= b.notified_at

\* Two entries of one slot, joined at different times, have both been notified.
C7_Witness ==
    \E a, b \in waitlist :
        /\ SameSlotBooking(a, b) /\ a.created_at < b.created_at
        /\ a.status = "NOTIFIED" /\ b.status = "NOTIFIED"

\* C8: a requester never has two WAITING entries for one slot.
C8_OneWaitingPerRequester ==
    \A a, b \in waitlist :
        ( /\ a.id # b.id /\ a.user = b.user /\ SameSlotBooking(a, b)
          /\ a.status = "WAITING" )
        => b.status # "WAITING"

\* C9: reservations are only ever added, as CONFIRMED; a stored reservation
\* changes only by its status going from CONFIRMED to CANCELLED; a cancel
\* request for a reservation that is already CANCELLED is answered not-found
\* and changes nothing.
C9_BookingLifecycle ==
    [][ /\ Len(bookings') >= Len(bookings)
        /\ \A i \in 1..Len(bookings) :
              \/ bookings'[i] = bookings[i]
              \/ /\ bookings[i].status = "CONFIRMED"
                 /\ bookings'[i] = [bookings[i] EXCEPT !.status = "CANCELLED"]
        /\ \A i \in (Len(bookings) + 1)..Len(bookings') :
              bookings'[i].status = "CONFIRMED"
        /\ ( /\ response'.op = "cancel"
             /\ response'.req.target \in 1..Len(bookings)
             /\ bookings[response'.req.target].status = "CANCELLED" )
           => (response'.res = "not_found" /\ bookings' = bookings) ]_vars

\* The owner's second cancel of a reservation has just been refused.
C9_Witness ==
    /\ response.op = "cancel" /\ response.res = "not_found"
    /\ response.req.target \in BookingIds
    /\ bookings[response.req.target].user = response.req.user
    /\ bookings[response.req.target].status = "CANCELLED"

\* The enabled rules in (priority ascending, name ascending) order.
RECURSIVE OrderByPriorityName(_)
OrderByPriorityName(rs) ==
    IF rs = {} THEN <<>>
    ELSE LET first == CHOOSE x \in rs :
                        \A y \in rs : \/ x.priority < y.priority
                                      \/ x.priority = y.priority /\ x.name <= y.name
         IN <<first>> \o OrderByPriorityName(rs \ {first})

\* C10: a price evaluation returns the total and the breakdown that applying
\* the enabled rules in (priority, name) order gives, so equal inputs under an
\* equal rule set give equal results.
C10_PriceDeterministic ==
    price.evaluated =>
        LET expected == calculate_price(OrderByPriorityName(EnabledRules(rules)),
                                        price.court, price.date, price.start_time,
                                        price.end_time, price.equipment_list, price.coach)
        IN /\ price.total_price = expected.total_price
           /\ price.breakdown = expected.breakdown

RECURSIVE SumAmounts(_)
SumAmounts(breakdown) ==
    IF breakdown = <<>> THEN 0
    ELSE Head(breakdown).amount + SumAmounts(Tail(breakdown))

\* C11: the amounts of a returned breakdown (floats, in units of 2^-16) add up
\* to exactly the returned total_price (a Decimal, in ten-thousandths), and
\* base_price is 500.
C11_BreakdownSumsToTotal ==
    price.evaluated =>
        /\ price.total_price % 625 = 0
        /\ SumAmounts(price.breakdown) = (price.total_price \div 625) * (2 ^ 12)
        /\ price.base_price = Dec(500)

RuleNamed(n) == CHOOSE r \in rules : r.name = n

\* The running price after the first k entries of the evaluation's breakdown:
\* 500 after the base entry; a percentage rule adds running * (multiplier - 1),
\* a flat rule adds its fee.
RECURSIVE RunningPrice(_)
RunningPrice(k) ==
    IF k = 1 THEN Dec(500)
    ELSE LET running == RunningPrice(k - 1)
             rule == RuleNamed(price.breakdown[k].rule)
         IN running +
            ( IF rule.is_percentage THEN (running * (rule.multiplier - 100)) \div 100
              ELSE IF rule.rule_type = "EQUIPMENT_FEE"
                   THEN rule.flat_fee * Len(price.equipment_list)
              ELSE IF rule.rule_type = "COACH_FEE" THEN hourly_fee(price.coach)
              ELSE rule.flat_fee )

\* C12: percentage rules compound: the entry of a percentage rule is the
\* running price, all earlier applied rules included, times (multiplier - 1),
\* and the total is the running price after the last entry; with Indoor x1.20
\* then Peak x1.50 as the applied rules the price goes 500 -> 600 -> 900.
C12_PercentagesCompound ==
    price.evaluated =>
        /\ \A k \in 2..Len(price.breakdown) :
              RuleNamed(price.breakdown[k].rule).is_percentage =>
                 price.breakdown[k].amount =
                    Float((RunningPrice(k - 1)
                             * (RuleNamed(price.breakdown[k].rule).multiplier - 100)) \div 100)
        /\ price.total_price = RunningPrice(Len(price.breakdown))
        /\ [i \in 1..Len(price.breakdown) |-> price.breakdown[i].rule] = <<0, 2, 3>>
              => /\ price.breakdown[2].amount = Float(Dec(100))
                 /\ price.breakdown[3].amount = Float(Dec(300))
                 /\ price.total_price = Dec(900)

\* An indoor peak-hour evaluation under Indoor x1.20 (priority 1) and Peak
\* x1.50 (priority 2) returned 900.
C12_Witness ==
    /\ price.evaluated
    /\ [i \in 1..Len(price.breakdown) |-> price.breakdown[i].rule] = <<0, 2, 3>>
    /\ RuleNamed(2).priority = 1 /\ RuleNamed(3).priority = 2
    /\ price.total_price = Dec(900)

\* The windows at which the claims below read availability: date 5 and the
\* day before, around the windows 17-19 and 18-20.
ProbeDates == {4, 5}

ProbeWindows == { <<16, 17>>, <<18, 19>>, <<19, 20>>, <<17, 20>> }

\* The units of equipment e a booking takes out of the window w of date d.
UnitsHeld(b, e, d, w) ==
    IF b.date = d /\ b.start_time < w[2] /\ b.end_time > w[1]
    THEN SumQuantity(b.items, e) ELSE 0

\* C13: confirming a booking lowers the available quantity of each equipment
\* by the quantity the booking lists, for every window overlapping the
\* booking's on its date, and leaves it unchanged for every other window and
\* date; cancelling the booking gives the units back; nothing else changes it.
C13_EquipmentConservation ==
    [][ \A e \in EquipmentIds, d \in ProbeDates, w \in ProbeWindows :
          LET before == get_available_quantity(e, d, w[1], w[2])
              after == get_available_quantity(e, d, w[1], w[2])'
          IN /\ Len(bookings') = Len(bookings) + 1 =>
                   after = before - UnitsHeld(bookings'[Len(bookings')], e, d, w)
             /\ \A i \in BookingIds :
                   ( /\ Len(bookings') = Len(bookings)
                     /\ bookings[i].status = "CONFIRMED"
                     /\ bookings'[i].status = "CANCELLED" ) =>
                        after = before + UnitsHeld(bookings[i], e, d, w)
             /\ bookings' = bookings => after = before ]_vars

\* Two confirmed bookings hold one racket each: none is left where their
\* windows overlap, one where only one of them runs, both on the day before.
C13_Witness ==
    /\ response.op = "confirm" /\ response.res = "ok"
    /\ Len(bookings[response.id].items) > 0
    /\ get_available_quantity(1, 5, 18, 19) = total_quantity(1) - 2
    /\ get_available_quantity(1, 5, 19, 20) = total_quantity(1) - 1
    /\ get_available_quantity(1, 5, 16, 17) = total_quantity(1)
    /\ get_available_quantity(1, 4, 18, 19) = total_quantity(1)

\* The races of notification, join and removal on one slot are harmless: an
\* entry becomes NOTIFIED only from WAITING, the entry a cancellation reports
\* was WAITING before, a row locked by a notifier is not deleted under it, no
\* id comes back once its row is gone, and a removed entry is gone.
QueueRacesHarmless ==
    [][ /\ \A v \in waitlist' :
              \/ v \in waitlist
              \/ v.id = nextWid /\ v.status = "WAITING" /\ nextWid' = nextWid + 1
              \/ /\ v.status = "NOTIFIED"
                 /\ [v EXCEPT !.status = "WAITING", !.notified_at = 0] \in waitlist
        /\ (response'.op = "cancel" /\ response'.res = "cancelled" /\ response'.aux # 0)
              => \E w \in waitlist : w.id = response'.aux /\ w.status = "WAITING"
        /\ \A q \in Procs : pc'[q] = "x_notifying" => req'[q].locked \subseteq waitlist'
        /\ (response'.op = "remove" /\ response'.res = "removed")
              => \A w \in waitlist' : w.id # response'.id ]_vars

\* C14: the notification step of a cancellation runs under the lock of the
\* court that confirm_booking's conflict re-check runs under: while one handler
\* is in its notification step for a slot of a court, no other handler holds
\* that court's row lock.
C14_NotifyUnderCourtLock ==
    \A p, q \in Procs :
        (pc[p] = "x_notifying" /\ pc[q] \in {"c_locked", "c_checked"})
            => bookings[req[p].target].court # req[q].court

\* C15: the notification of a cancelled booking's slot changes at most one
\* waitlist entry, and only a WAITING one whose court, date, start and end
\* equal the booking's; entries of another window of the court, overlapping
\* or not, and of other courts stay as they are; when the slot has no WAITING
\* entry nothing changes and no entry is reported.
C15_NotifyFrame ==
    [][ \A p \in Procs :
          (pc[p] = "x_locked" /\ pc'[p] = "idle" /\ response'.res = "cancelled") =>
             LET b == bookings[req[p].target]
                 changed == waitlist \ waitlist'
             IN /\ Cardinality(changed) <= 1
                /\ Cardinality(waitlist') = Cardinality(waitlist)
                /\ \A w \in changed :
                      /\ w.court = b.court /\ w.date = b.date
                      /\ w.start_time = b.start_time /\ w.end_time = b.end_time
                      /\ w.status = "WAITING"
                /\ (~ \E w \in waitlist :
                        /\ w.court = b.court /\ w.date = b.date
                        /\ w.start_time = b.start_time /\ w.end_time = b.end_time
                        /\ w.status = "WAITING")
                      => (waitlist' = waitlist /\ response'.aux = 0) ]_vars

\* A cancellation of court 1 at 17-19 has notified that slot's entry while an
\* entry for the overlapping window 18-20 of the court is still WAITING.
C15_Witness ==
    /\ response.op = "cancel" /\ response.res = "cancelled" /\ response.aux # 0
    /\ \E w, v \in waitlist :
          /\ w.id = response.aux /\ w.status = "NOTIFIED"
          /\ v.court = w.court /\ v.date = w.date
          /\ v.start_time < w.end_time /\ v.end_time > w.start_time
          /\ v.start_time # w.start_time
          /\ v.status = "WAITING"

\* C16: a join whose duplicate check finds a WAITING entry of the requester
\* for exactly the requested court, date and window is answered with the
\* duplicate signal and leaves the waitlist unchanged; a join goes on to
\* create only when the check found none, and then adds exactly one new
\* WAITING entry of the requester for that slot and changes no other entry.
C16_JoinDuplicateOrAppend ==
    [][ /\ \A p \in Procs :
              (pc[p] = "idle" /\ pc'[p] = "j_checked") =>
                 /\ waitlist' = waitlist
                 /\ ~ \E w \in waitlist :
                        /\ w.user = req'[p].user /\ SameSlotBooking(w, req'[p])
                        /\ w.status = "WAITING"
        /\ (response'.op = "join" /\ response'.res = "duplicate") =>
              /\ waitlist' = waitlist
              /\ \E w \in waitlist :
                    /\ w.user = response'.req.user /\ SameSlotBooking(w, response'.req)
                    /\ w.status = "WAITING"
        /\ (response'.op = "join" /\ response'.res = "joined") =>
              \E new \in waitlist' :
                 /\ \A w \in waitlist : w.id # new.id
                 /\ waitlist' = waitlist \cup {new}
                 /\ new.id = response'.id
                 /\ new.user = response'.req.user /\ SameSlotBooking(new, response'.req)
                 /\ new.status = "WAITING" ]_vars

\* A requester with a WAITING entry for a slot has just been answered with the
\* duplicate signal, while holding an entry of another slot as well.
C16_Witness ==
    /\ response.op = "join" /\ response.res = "duplicate"
    /\ \E w, v \in waitlist :
          /\ w.user = response.req.user /\ SameSlotBooking(w, response.req)
          /\ w.status = "WAITING"
          /\ v.user = response.req.user /\ ~ SameSlotBooking(v, response.req)

\* C17: the position a successful join reports, read right after the entry
\* was created, is the rank of the requester's WAITING entry among the WAITING
\* entries of the slot, which then equals their number; entries that are no
\* longer WAITING are not counted.
C17_PositionAfterJoin ==
    (response.op = "join" /\ response.res = "joined") =>
        response.aux = Cardinality({ w \in waitlist : /\ SameSlotBooking(w, response.req)
                                                       /\ w.status = "WAITING" })

\* C18: a run of the expiry job turns into EXPIRED exactly the NOTIFIED
\* entries notified more than 24 hours (one clock unit) before, returns their
\* number and changes nothing else; a run that directly follows another run
\* changes no entry and returns 0.
C18_ExpiryIdempotent ==
    [][ response'.op = "expire" =>
          LET old == { w \in waitlist : w.status = "NOTIFIED" /\ now - w.notified_at > 1 }
          IN /\ waitlist' = (waitlist \ old) \cup { [w EXCEPT !.status = "EXPIRED"] : w \in old }
             /\ response'.aux = Cardinality(old)
             /\ now' = now /\ bookings' = bookings
             /\ response.op = "expire" => (waitlist' = waitlist /\ response'.aux = 0) ]_vars

\* A run of the job has just expired one entry and left alone an entry
\* notified exactly 24 hours before.
C18_Witness ==
    /\ response.op = "expire" /\ response.aux = 1
    /\ \E w, v \in waitlist :
          /\ w.status = "EXPIRED"
          /\ v.status = "NOTIFIED" /\ v.notified_at = now - 1

\* C19: a removal is answered true, and deletes, only when an entry with the
\* given id owned by the requester was found: it then deletes that entry and
\* no other; when no such entry exists (the id is unknown or the entry is
\* someone else's) it is answered false and every entry stays as it was.
C19_RemoveOwnEntryOnly ==
    [][ /\ \A p \in Procs :
              (pc[p] = "idle" /\ pc'[p] = "r_found") =>
                 /\ waitlist' = waitlist
                 /\ \E w \in waitlist : w.id = req'[p].target /\ w.user = req'[p].user
        /\ (response'.op = "remove" /\ response'.res = "absent") =>
              /\ waitlist' = waitlist
              /\ ~ \E w \in waitlist :
                     w.id = response'.req.target /\ w.user = response'.req.user
        /\ (response'.op = "remove" /\ response'.res = "removed") =>
              /\ waitlist' \subseteq waitlist
              /\ \A w \in waitlist \ waitlist' :
                    w.id = response'.req.target /\ w.user = response'.req.user
              /\ ~ \E w \in waitlist' : w.id = response'.req.target ]_vars

\* A requester naming another requester's entry has just been answered false.
C19_Witness ==
    /\ response.op = "remove" /\ response.res = "absent"
    /\ \E w \in waitlist : w.id = response.req.target /\ w.user # response.req.user

\* C20: entries of one slot with equal created_at are ordered by a fixed
\* tie-break: for given queue contents there is one entry the notification of
\* a cancellation in progress can pick, and one order in which the position
\* query can rank the slot's WAITING entries.
C20_TiesBrokenDeterministically ==
    /\ \A p \in Procs :
          pc[p] = "x_locked" =>
             LET b == bookings[req[p].target]
             IN Cardinality(NextInQueue(b.court, b.date, b.start_time, b.end_time)) <= 1
    /\ \A w \in waitlist :
          Cardinality(OrderByCreatedAt(Waiting(w.court, w.date, w.start_time, w.end_time))) <= 1

\* C21: a price preview naming a court, coach or equipment id that has no row
\* returns a not-found error and no price: no total and no breakdown computed
\* as if the missing coach or equipment had not been requested.
C21_PreviewNotFound ==
    ( /\ price.evaluated \/ price.error # ""
      /\ \/ price.court_id \notin CourtIds
         \/ price.coach_id \notin CoachIds \cup {0}
         \/ \E i \in 1..Len(price.equipment_ids) : price.equipment_ids[i] \notin EquipmentIds )
    => ( /\ price.error # ""
         /\ ~ price.evaluated
         /\ price.total_price = 0 /\ price.breakdown = <<>> )

\* C22: a confirm request whose start is not strictly before its end is
\* answered with a validation error and creates no reservation: every stored
\* reservation has start < end.
C22_WindowValidated ==
    /\ \A i \in BookingIds : bookings[i].start_time < bookings[i].end_time
    /\ (response.op = "confirm" /\ response.req.start_time >= response.req.end_time)
          => response.res = "invalid"

\* C23: an equipment line item with quantity 0 or negative is answered as
\* invalid input, and no stored reservation has a line item of quantity <= 0.
C23_QuantityValidated ==
    /\ \A i \in BookingIds :
          \A k \in 1..Len(bookings[i].items) : bookings[i].items[k].quantity > 0
    /\ ( /\ response.op = "confirm"
         /\ \E k \in 1..Len(response.req.equipment) : response.req.equipment[k].quantity <= 0 )
          => response.res = "invalid"

\* C24: a confirm call that finds, under the court lock, a CONFIRMED
\* reservation of the court overlapping the requested window is answered
\* slot-taken (409 with slot_full), not with the itemized validation errors,
\* even when the requested coach or equipment is unavailable as well, and
\* writes nothing.
C24_SlotTakenBeforeValidation ==
    [][ \A p \in Procs :
          ( /\ pc[p] = "c_locked" /\ pc'[p] # "c_locked"
            /\ \E i \in BookingIds :
                  /\ bookings[i].court = req[p].court /\ bookings[i].date = req[p].date
                  /\ bookings[i].status = "CONFIRMED"
                  /\ bookings[i].start_time < req[p].end_time
                  /\ bookings[i].end_time > req[p].start_time )
          => /\ response'.op = "confirm" /\ response'.res = "slot_full"
             /\ response'.errors = <<>>
             /\ bookings' = bookings /\ waitlist' = waitlist ]_vars

\* A request for a taken slot that also names a coach without availability and
\* more rackets than there are has just been answered slot-taken.
C24_Witness ==
    /\ response.op = "confirm" /\ response.res = "slot_full"
    /\ response.req.coach_id # 0
    /\ ~ check_coach_available(response.req.coach_id, response.req.date,
                               response.req.start_time, response.req.end_time)
    /\ \E k \in 1..Len(response.req.equipment) :
          ~ check_equipment_available(response.req.equipment[k].id,
                                      response.req.equipment[k].quantity, response.req.date,
                                      response.req.start_time, response.req.end_time)

\* C25: a cancel request for a booking that does not exist, belongs to another
\* requester or is already CANCELLED is answered not-found, and a request
\* answered not-found leaves every reservation and every waitlist entry as it
\* was.
C25_CancelNotFoundChangesNothing ==
    [][ response'.op = "cancel" =>
          LET r == response'.req
          IN /\ ( \/ r.target \notin 1..Len(bookings)
                  \/ bookings[r.target].user # r.user
                  \/ bookings[r.target].status = "CANCELLED" )
                    => response'.res = "not_found"
             /\ response'.res = "not_found" =>
                    (bookings' = bookings /\ waitlist' = waitlist) ]_vars

\* A cancel request of user 2 for the CONFIRMED booking of user 1 has just been
\* refused while an entry is WAITING for the booking's slot.
C25_Witness ==
    /\ response.op = "cancel" /\ response.res = "not_found"
    /\ response.req.target \in BookingIds
    /\ bookings[response.req.target].user # response.req.user
    /\ bookings[response.req.target].status = "CONFIRMED"
    /\ \E w \in waitlist :
          SameSlotBooking(w, bookings[response.req.target]) /\ w.status = "WAITING"

\* C26: check_all_resources_available does not stop at the first failure: its
\* error list holds one entry for the court when the court is unavailable,
\* then one entry naming each equipment line whose quantity exceeds the
\* available quantity, then one entry for the coach when the coach is
\* unavailable; the result is available iff the list is empty.
C26_CheckAllAggregates ==
    (response.op = "check" /\ response.res # "error") =>
        LET r == response.req
            short == SelectSeq(r.equipment,
                        LAMBDA line : ~ check_equipment_available(line.id, line.quantity,
                                            r.date, r.start_time, r.end_time))
        IN /\ response.errors =
                 (IF check_court_available(r.court, r.date, r.start_time, r.end_time)
                  THEN <<>> ELSE << [error |-> "court", id |-> r.court] >>)
                 \o [k \in 1..Len(short) |-> [error |-> "Insufficient", id |-> short[k].id]]
                 \o (IF r.coach_id # 0 /\ ~ check_coach_available(r.coach_id, r.date,
                                                       r.start_time, r.end_time)
                     THEN << [error |-> "coach", id |-> r.coach_id] >> ELSE <<>>)
           /\ (response.res = "available") = (response.errors = <<>>)

\* A check has just reported the court, two equipment lines and the coach.
C26_Witness ==
    /\ response.op = "check" /\ response.res = "unavailable"
    /\ Len(response.errors) = 4
    /\ response.errors[1].error = "court"
    /\ response.errors[2].error = "Insufficient" /\ response.errors[3].error = "Insufficient"
    /\ response.errors[4].error = "coach"

\* A coach's availability window of the date's weekday contains the window.
CoachWindowContains(coach, date, start_time, end_time) ==
    \E a \in CoachAvailabilityRows :
        /\ a.coach = coach /\ a.day_of_week = date % 7
        /\ a.start_time <= start_time /\ a.end_time >= end_time

\* C27: a booking with a coach is confirmed only if one of the coach's
\* availability windows on the date's weekday contains the whole requested
\* window; a request that a window covers only in part, or that only two
\* windows together cover, is not confirmed.
C27_CoachWindowContainsBooking ==
    /\ \A i \in BookingIds :
          bookings[i].coach # 0 =>
             CoachWindowContains(bookings[i].coach, bookings[i].date,
                                 bookings[i].start_time, bookings[i].end_time)
    /\ ( /\ response.op = "confirm" /\ response.req.coach_id # 0
         /\ ~ CoachWindowContains(response.req.coach_id, response.req.date,
                                  response.req.start_time, response.req.end_time) )
          => response.res # "ok"

\* A request that two adjacent windows of the coach cover only together has
\* just been refused on the coach alone.
C27_Witness ==
    /\ response.op = "confirm" /\ response.res = "invalid"
    /\ response.errors = << [error |-> "coach", id |-> response.req.coach_id] >>
    /\ \E a, b \in CoachAvailabilityRows :
          /\ a.coach = response.req.coach_id /\ b.coach = response.req.coach_id
          /\ a.day_of_week = response.req.date % 7 /\ b.day_of_week = a.day_of_week
          /\ a.start_time <= response.req.start_time /\ a.end_time = b.start_time
          /\ b.end_time >= response.req.end_time

\* C28: the breakdown entry of a flat-fee EQUIPMENT_FEE rule is the rule's
\* flat_fee times the number of equipment line items of the booking, whatever
\* the quantity of each line: a flat fee of 50 with two lines contributes 100.
C28_EquipmentFeePerLine ==
    \A i \in BookingIds :
        \A k \in 2..Len(bookings[i].price_breakdown) :
            LET entry == bookings[i].price_breakdown[k]
                rule == RuleNamed(entry.rule)
            IN (entry.type = "EQUIPMENT_FEE" /\ ~ rule.is_percentage) =>
                  /\ entry.amount = Float(rule.flat_fee * Len(bookings[i].items))
                  /\ (rule.flat_fee = Dec(50) /\ Len(bookings[i].items) = 2)
                        => entry.amount = Float(Dec(100))

\* A booking with two line items carries a racket fee of 100, and a booking
\* with one line item of quantity 2 a racket fee of 50.
C28_Witness ==
    \E i, j \in BookingIds :
        /\ Len(bookings[i].items) = 2
        /\ \E k \in 2..Len(bookings[i].price_breakdown) :
              /\ bookings[i].price_breakdown[k].rule = 4
              /\ bookings[i].price_breakdown[k].amount = Float(Dec(100))
        /\ Len(bookings[j].items) = 1 /\ bookings[j].items[1].quantity = 2
        /\ \E k \in 2..Len(bookings[j].price_breakdown) :
              /\ bookings[j].price_breakdown[k].rule = 4
              /\ bookings[j].price_breakdown[k].amount = Float(Dec(50))

\* C29: the breakdown entry of a flat-fee COACH_FEE rule is exactly the
\* attached coach's hourly_fee, whatever the rule's own flat_fee: with rule
\* flat_fee 0 and coach hourly_fee 200 it is 200.
C29_CoachFeeIsHourlyFee ==
    price.evaluated =>
        \A k \in 2..Len(price.breakdown) :
            LET entry == price.breakdown[k]
                rule == RuleNamed(entry.rule)
            IN (entry.type = "COACH_FEE" /\ ~ rule.is_percentage) =>
                  /\ price.coach # 0
                  /\ entry.amount = Float(hourly_fee(price.coach))
                  /\ (rule.flat_fee = Dec(0) /\ hourly_fee(price.coach) = Dec(200))
                        => entry.amount = Float(Dec(200))

\* An evaluation with the coach whose hourly_fee is 200 under a coach fee rule
\* whose own flat_fee is 75 has a coach fee entry of 200.
C29_Witness ==
    /\ price.evaluated /\ price.coach = 1
    /\ RuleNamed(1).flat_fee = Dec(75)
    /\ \E k \in 2..Len(price.breakdown) :
          /\ price.breakdown[k].type = "COACH_FEE"
          /\ price.breakdown[k].amount = Float(Dec(200))

\* The predicate of an enabled rule of a recognised type.
RulePredicate(rule) ==
    \/ rule.rule_type = "INDOOR_PREMIUM" /\ court_type(price.court) = "INDOOR"
    \/ rule.rule_type = "WEEKEND" /\ (price.date % 7) \in rule.applies_to_days
    \/ rule.rule_type = "EQUIPMENT_FEE" /\ price.equipment_list # <<>>
    \/ rule.rule_type = "COACH_FEE" /\ price.coach # 0
    \/ /\ rule.rule_type = "PEAK_HOURS" /\ rule.start_time # 0 /\ rule.end_time # 0
       /\ price.start_time < rule.end_time /\ price.end_time > rule.start_time

\* C30: a disabled rule and a rule of an unrecognised type never appear in the
\* breakdown, never change the price (the result is the one the enabled rules
\* of recognised types give alone) and cause no error; an enabled rule of a
\* recognised type is applied, once, iff its predicate holds.
C30_OnlyApplicableRulesApply ==
    price.evaluated =>
        LET applied == { price.breakdown[k].rule : k \in 2..Len(price.breakdown) }
            known == { r \in rules :
                         /\ r.is_enabled
                         /\ r.rule_type \in {"PEAK_HOURS", "WEEKEND", "INDOOR_PREMIUM",
                                              "EQUIPMENT_FEE", "COACH_FEE"} }
        IN /\ price.error = ""
           /\ Cardinality(applied) = Len(price.breakdown) - 1
           /\ \A r \in rules : r.name \in applied <=> (r \in known /\ RulePredicate(r))
           /\ \E order \in OrderByPriority(known) :
                 LET alone == calculate_price(order, price.court, price.date,
                                              price.start_time, price.end_time,
                                              price.equipment_list, price.coach)
                 IN /\ price.total_price = alone.total_price
                    /\ price.breakdown = alone.breakdown

\* An indoor evaluation with a coach under an enabled HOLIDAY rule and a
\* disabled indoor premium has applied the coach fee.
C30_Witness ==
    /\ price.evaluated /\ court_type(price.court) = "INDOOR" /\ price.coach # 0
    /\ \E r, d \in rules :
          /\ r.rule_type = "HOLIDAY" /\ r.is_enabled
          /\ d.rule_type = "INDOOR_PREMIUM" /\ ~ d.is_enabled
    /\ \E k \in 2..Len(price.breakdown) : price.breakdown[k].type = "COACH_FEE"

\* Windows, well-formed or not, over the hours 16..18.
OverlapWindows == { <<s, e>> : s, e \in 16..18 }

\* C31: the overlap test of the booking queries and of the peak-hour rule is
\* symmetric and half-open: windows that only touch do not overlap, so a
\* confirm call is answered slot-taken only when a CONFIRMED booking of the
\* court shares an instant with the request (back-to-back bookings both
\* succeed), and an enabled peak rule is applied iff the evaluated window
\* shares an instant with the peak window (none when it ends as the peak
\* starts).
C31_OverlapSymmetricHalfOpen ==
    /\ \A a, b \in OverlapWindows :
          /\ _time_overlaps(a[1], a[2], b[1], b[2]) = _time_overlaps(b[1], b[2], a[1], a[2])
          /\ SlotOverlaps([date |-> 5, start_time |-> a[1], end_time |-> a[2]], 5, b[1], b[2])
               = SlotOverlaps([date |-> 5, start_time |-> b[1], end_time |-> b[2]], 5, a[1], a[2])
          /\ a[2] = b[1] /\ a[1] < a[2] /\ b[1] < b[2] =>
                /\ ~ _time_overlaps(a[1], a[2], b[1], b[2])
                /\ ~ SlotOverlaps([date |-> 5, start_time |-> a[1], end_time |-> a[2]],
                                  5, b[1], b[2])
    /\ (response.op = "confirm" /\ response.res = "slot_full") =>
          \E i \in BookingIds :
              /\ bookings[i].court = response.req.court /\ bookings[i].date = response.req.date
              /\ bookings[i].status = "CONFIRMED"
              /\ \E t \in 0..23 :
                    /\ bookings[i].start_time <= t /\ t < bookings[i].end_time
                    /\ response.req.start_time <= t /\ t < response.req.end_time
    /\ price.evaluated =>
          \A r \in rules :
              (r.rule_type = "PEAK_HOURS" /\ r.is_enabled /\ r.start_time # 0) =>
                 ( (\E k \in 2..Len(price.breakdown) : price.breakdown[k].rule = r.name)
                   <=> \E t \in 0..23 : /\ r.start_time <= t /\ t < r.end_time
                                         /\ price.start_time <= t /\ t < price.end_time )

\* Two back-to-back bookings of the court are CONFIRMED, the second just made,
\* and an evaluation of the window 17-18, which ends as the peak hours start,
\* carries no peak premium under the enabled peak rule.
C31_Witness ==
    /\ response.op = "confirm" /\ response.res = "ok"
    /\ \E i \in BookingIds :
          /\ i # response.id
          /\ bookings[i].status = "CONFIRMED"
          /\ bookings[i].court = bookings[response.id].court
          /\ bookings[i].date = bookings[response.id].date
          /\ bookings[i].end_time = bookings[response.id].start_time
    /\ price.evaluated /\ price.end_time = 18
    /\ \E r \in rules : r.rule_type = "PEAK_HOURS" /\ r.is_enabled /\ r.start_time = 18
    /\ \A k \in 1..Len(price.breakdown) : price.breakdown[k].type # "PEAK_HOURS"

\* The units of equipment e that the CONFIRMED bookings 1..i hold at hour t of
\* date d.
RECURSIVE UnitsAt(_, _, _, _)
UnitsAt(i, e, d, t) ==
    IF i = 0 THEN 0
    ELSE (IF /\ bookings[i].status = "CONFIRMED" /\ bookings[i].date = d
             /\ bookings[i].start_time <= t /\ t < bookings[i].end_time
          THEN SumQuantity(bookings[i].items, e) ELSE 0)
         + UnitsAt(i - 1, e, d, t)

\* C32: equipment is never over-allocated: for every equipment item and every
\* instant of every date the quantities of the CONFIRMED bookings covering the
\* instant sum to at most total_quantity.
C32_EquipmentNeverOverAllocated ==
    \A e \in EquipmentIds, d \in ProbeDates, t \in 16..20 :
        UnitsAt(Len(bookings), e, d, t) <= total_quantity(e)

\* C33: a coach is never double-booked: no two distinct CONFIRMED bookings
\* with the same coach on the same date have overlapping windows.
C33_CoachNeverDoubleBooked ==
    \A i, j \in BookingIds :
        ( /\ i # j
          /\ bookings[i].status = "CONFIRMED" /\ bookings[j].status = "CONFIRMED"
          /\ bookings[i].coach # 0 /\ bookings[i].coach = bookings[j].coach
          /\ bookings[i].date = bookings[j].date )
        => ~ ( /\ bookings[i].start_time < bookings[j].end_time
               /\ bookings[i].end_time > bookings[j].start_time )

\* C34: a confirmation succeeds only for resources the listing queries
\* return: when a booking is written, its court is among get_available_courts
\* and its coach, if any, among get_available_coaches for its date and window
\* in the state it is written from; so the court and the coach are active.
C34_ConfirmOnlyListedResources ==
    [][ \A p \in Procs :
          ( /\ pc[p] = "c_checked" /\ pc'[p] = "idle"
            /\ response'.op = "confirm" /\ response'.res = "ok" )
          => LET r == req[p]
             IN /\ r.court \in get_available_courts(r.date, r.start_time, r.end_time)
                /\ r.coach_id # 0
                   => r.coach_id \in get_available_coaches(r.date, r.start_time, r.end_time)
      ]_vars

\* No CONFIRMED booking, on any court, shares an instant of the date with the
\* window of the request.
NoConfirmedAt(r) ==
    \A i \in BookingIds :
        bookings[i].status = "CONFIRMED"
        => ~ ( /\ bookings[i].date = r.date
               /\ \E t \in 0..23 : /\ bookings[i].start_time <= t /\ t < bookings[i].end_time
                                   /\ r.start_time <= t /\ t < r.end_time )

\* The request names an existing court, distinct equipment items in
\* quantities the pools hold, and no coach or one whose weekly window contains
\* the requested window.
Servable(r) ==
    /\ r.court \in CourtIds
    /\ \A k \in 1..Len(r.equipment) :
          /\ r.equipment[k].id \in EquipmentIds
          /\ r.equipment[k].quantity \in 0..total_quantity(r.equipment[k].id)
          /\ \A l \in 1..Len(r.equipment) : l # k => r.equipment[l].id # r.equipment[k].id
    /\ r.coach_id # 0 => CoachWindowContains(r.coach_id, r.date, r.start_time, r.end_time)

\* C35: CANCELLED bookings never block and a NOTIFIED waitlist entry holds
\* nothing: when no CONFIRMED booking shares an instant with the requested
\* window, a servable request passes the checks under the court lock and its
\* write answers success, whatever CANCELLED bookings and waitlist entries
\* exist for the slot, its equipment and its coach.
C35_CancelledNeverBlocks ==
    [][ \A p \in Procs :
          ( /\ pc'[p] # pc[p] /\ NoConfirmedAt(req[p]) /\ Servable(req[p]) )
          => /\ pc[p] = "c_locked" => pc'[p] = "c_checked"
             /\ pc[p] = "c_checked"
                => /\ response'.op = "confirm" /\ response'.res = "ok"
                   /\ response'.req = req[p]
                   /\ bookings'[response'.id].status = "CONFIRMED"
      ]_vars

\* The slot of a CANCELLED booking, with the same shoes and coach, is booked
\* again by a user while another user holds a NOTIFIED entry for it.
C35_Witness ==
    /\ response.op = "confirm" /\ response.res = "ok"
    /\ \E i \in BookingIds :
          /\ bookings[i].status = "CANCELLED"
          /\ bookings[i].court = response.req.court
          /\ bookings[i].date = response.req.date
          /\ bookings[i].start_time = response.req.start_time
          /\ bookings[i].end_time = response.req.end_time
          /\ bookings[i].coach = response.req.coach_id /\ response.req.coach_id # 0
          /\ bookings[i].items = response.req.equipment /\ response.req.equipment # <<>>
    /\ \E w \in waitlist :
          /\ w.status = "NOTIFIED" /\ w.user # response.req.user
          /\ SameSlot(w, response.req.court, response.req.date,
                      response.req.start_time, response.req.end_time)

\* The handler p holds no row lock.
HoldsNothing(p) ==
    /\ \A c \in CourtIds : ~ HoldsCourt(p, c)
    /\ \A b \in BookingIds : ~ HoldsBooking(p, b)
    /\ \A w \in waitlist : ~ HoldsEntry(p, w.id)
    /\ req[p].locked = {}

\* C36: concurrent confirm, cancel and notify calls never deadlock: a handler
\* that has returned holds no lock, whenever some call is in progress some
\* handler can take a step, and under fair scheduling every call that has
\* begun eventually returns.
C36_NoDeadlockEveryCallReturns ==
    /\ [] (\A p \in Procs : pc[p] = "idle" => HoldsNothing(p))
    /\ [] ((\E p \in Procs : pc[p] # "idle") => ENABLED (\E q \in Procs : HandlerStep(q)))
    /\ \A p \in Procs : (pc[p] # "idle") ~> (pc[p] = "idle")

\* A confirm handler holding the court lock waits for the row of the conflicting
\* booking, which a cancel handler has locked.
C36_Witness ==
    \E p, q \in Procs :
        /\ pc[p] = "c_locked"
        /\ \E b \in FirstConflicts(req[p]) : HoldsBooking(q, b)

\* C37: a waitlist entry's status only moves WAITING -> NOTIFIED -> EXPIRED:
\* an entry is created WAITING, only the notification of a cancellation turns
\* WAITING into NOTIFIED, only expire_old_notifications turns NOTIFIED into
\* EXPIRED, no step makes any other status change, and notified_at is set
\* exactly on the entries that are not WAITING.
C37_WaitlistStatusForwardOnly ==
    [][ \A v \in waitlist' :
          /\ (v.notified_at # 0) <=> (v.status # "WAITING")
          /\ (\A w \in waitlist : w.id # v.id) => v.status = "WAITING"
          /\ \A w \in waitlist :
                w.id = v.id
                => \/ v.status = w.status
                   \/ /\ w.status = "WAITING" /\ v.status = "NOTIFIED"
                      /\ response'.op = "cancel" /\ response'.res = "cancelled"
                      /\ response'.aux = w.id
                   \/ /\ w.status = "NOTIFIED" /\ v.status = "EXPIRED"
                      /\ response'.op = "expire"
      ]_vars

\* expire_old_notifications has just expired an entry that a cancellation
\* had notified.
C37_Witness ==
    /\ response.op = "expire" /\ response.aux >= 1
    /\ \E w \in waitlist : w.status = "EXPIRED" /\ w.notified_at # 0

\* C38: a cancellation changes only the status of the booking it targets:
\* every other field of that booking and every other booking stay as they
\* were, and no step, a change of the pricing rules included, alters the
\* court, date, window, coach, line items, prices or breakdown of a stored
\* booking.
C38_CancelChangesOnlyStatus ==
    [][ /\ \A i \in BookingIds :
             /\ i \in DOMAIN bookings'
             /\ [bookings'[i] EXCEPT !.status = bookings[i].status] = bookings[i]
        /\ (response'.op = "cancel" /\ response'.res = "cancelled")
           => bookings' = [bookings EXCEPT ![response'.id].status = "CANCELLED"]
        /\ rules' # rules => bookings' = bookings
      ]_vars

\* A booking with a line item and a coach has just been cancelled, next to
\* another booking, after the rules were changed: its price is still the one
\* written under the seeded rules.
C38_Witness ==
    /\ response.op = "cancel" /\ response.res = "cancelled"
    /\ bookings[response.id].status = "CANCELLED"
    /\ bookings[response.id].items # <<>> /\ bookings[response.id].coach # 0
    /\ Len(bookings) >= 2
    /\ rules # SeedRules
    /\ \E order \in OrderByPriority(EnabledRules(rules)) :
          bookings[response.id].total_price
            # calculate_price(order, 1, 5, 18, 20, << Line(1, 1) >>, 2).total_price

\* C39: the price stored by a successful confirmation is the one the price
\* preview returns for the same court, date, window, equipment ids and coach
\* id under the same enabled rules: same total, same breakdown.
C39_StoredPriceEqualsPreview ==
    [][ \A p \in Procs :
          ( /\ pc[p] = "c_checked" /\ pc'[p] = "idle"
            /\ response'.op = "confirm" /\ response'.res = "ok" )
          => LET r == req[p]
                 b == bookings'[response'.id]
             IN \E order \in OrderByPriority(EnabledRules(rules)) :
                   LET pricing_data ==
                           PreviewData(order, r.court, r.date, r.start_time, r.end_time,
                                       LineIds(r.equipment), r.coach_id)
                   IN /\ b.total_price = pricing_data.total_price
                      /\ b.base_price = pricing_data.base_price
                      /\ b.price_breakdown = pricing_data.breakdown
      ]_vars

\* C40: get_time_slots terminates for every positive slot duration and its
\* slots are contiguous and lie within 06:00-22:00: the first slot starts at
\* 06:00, each slot starts where the previous one ends and ends after it
\* starts, no slot ends after 22:00 (so the list never holds more slots than
\* fit between 06:00 and 22:00, which bounds the loop), and a finished call
\* with 60 minutes has returned exactly 16 slots.
C40_TimeSlotsTerminateContiguous ==
    LET slots == timeslots.slots
    IN /\ \A i \in 1..Len(slots) :
             /\ slots[i].start_time = IF i = 1 THEN time(6, 0) ELSE slots[i - 1].end_time
             /\ slots[i].start_time < slots[i].end_time
             /\ slots[i].end_time <= time(22, 0)
       /\ Len(slots) * timeslots.slot_duration_minutes <= time(22, 0) - time(6, 0)
       /\ (timeslots.pc = "returned" /\ timeslots.slot_duration_minutes = 60)
          => Len(slots) = 16

====
